---- MODULE Spec2Model ----
(***************************************************************************)
(* A model of marks (imishinist/marks): the line-mark interval set         *)
(* (FileMarkSpec), its text codec (parse_spec_file / write_spec_file) and  *)
(* the status and print routines that read it.                            *)
(*                                                                         *)
(* The 16-bit line offset is modelled with a narrower unsigned integer:    *)
(* U16_MAX stands for u16::MAX, every u16 value lies in 0..U16_MAX, and    *)
(* the arithmetic of the source keeps its kind (checked/wrapping "+",     *)
(* saturating_add, saturating_sub) relative to U16_MAX.                    *)
(***************************************************************************)
EXTENDS Integers, Sequences, FiniteSets, TLC

\* u16::MAX of the model's unsigned integer (65535 in the program).
U16_MAX == 3
\* Longest interval list the model lets add and remove build.
MaxSpecs == 3
\* Largest number of lines of a source file handed to status and print.
MaxSrcLines == 4

U16 == 0..U16_MAX

VARIABLES
    disk,      \* the spec file: a sequence of lines, each a sequence of characters
    spec,      \* the in-memory FileMarkSpec of the running command, or NoSpec
    lastOp,    \* the operation that produced this state
    lastArg,   \* its line offset argument (add, remove), else 0
    outcome,   \* how it ended: "ok", "err" (a Result Err) or "panic"
    pc,        \* position of the running command: "idle", "view", "edit_parse", "edit_save", "exit"
    tmpFile,   \* the temporary copy the editor works on
    status,    \* the result of the last status command on the current spec file, or NoStatus
    printed,   \* what the last print command highlighted for the current spec file, or NoPrint
    exists,    \* whether the spec file exists in the storage directory
    save,      \* the save in progress: its kind, the content before it and the content it writes
    seen,      \* what a concurrent reader found when it opened the spec file, or NoSeen
    env,       \* the environment: whether HOME and EDITOR are set
    accessed,  \* the files the running command has resolved, created, read or written
    cmd,       \* the command main is running, or "none"
    tree,      \* the directory handed to status: its entries in read_dir order
    raw_mode,          \* whether the terminal is in raw mode
    alternate_screen,  \* whether the terminal shows the alternate screen
    lines,     \* Parser.lines: the lines of the path list, each a sequence of characters
    markings,  \* what Parser::parse returned for them, or <<>> before it ran
    markedFile, \* a file::Marked: its lines, each a record of str, mark and ignore
    source_lines,        \* ViewApp.source_lines
    scroll_offset,       \* ViewApp.offset: the top line of the screen
    cursor_line_offset,  \* ViewApp.cursor_line_offset
    source_view_height,  \* ViewApp.source_view_height, as the last draw left it
    input_mode,          \* ViewApp.input_mode: "Normal" or "Editing"
    input,               \* ViewApp.input: the characters typed after /
    grep_text            \* ViewApp.grep_text: <<>> for None, <<needle>> for Some(needle)

saveVars == <<save, seen>>
envVars == <<env, accessed, cmd>>
termVars == <<raw_mode, alternate_screen>>
parserVars == <<lines, markings>>
cursorVars == <<source_lines, scroll_offset, cursor_line_offset, source_view_height,
                input_mode, input, grep_text>>
vars == <<disk, spec, lastOp, lastArg, outcome, pc, tmpFile, status, printed,
          exists, saveVars, envVars, tree, termVars, parserVars, markedFile, cursorVars>>

\* The terminal is as the shell left it.
TermIdle == raw_mode = FALSE /\ alternate_screen = FALSE

\* No path list is being parsed.
ParserIdle == lines = <<>> /\ markings = <<>>

\* No file::Marked is held.
MarkedIdle == markedFile = <<>>

\* The cursor of the view session is not followed: ViewApp::new's values over
\* no source line.
CursorIdle ==
    /\ source_lines = <<>> /\ scroll_offset = 0 /\ cursor_line_offset = 0
    /\ source_view_height = 80
    /\ input_mode = "Normal" /\ input = <<>> /\ grep_text = <<>>

(***************************************************************************)
(* SpecType and FileMarkSpec                                               *)
(***************************************************************************)
Line(offset) == <<"Line", offset>>
Range(l, r) == <<"Range", l, r>>

All == [tag |-> "All", specs |-> <<>>]
Partial(specs) == [tag |-> "Partial", specs |-> specs]
NoSpec == [tag |-> "None", specs |-> <<>>]

\* The match guards shared by match_line_offset and remove.
Covers(s, line_offset) ==
    \/ s[1] = "Line" /\ s[2] = line_offset
    \/ s[1] = "Range" /\ s[2] <= line_offset /\ line_offset < s[3]

\* Fault variant of FindFrom: the index of the last entry that covers line_offset.
FindLast(specs, i, line_offset) ==
    LET c == {k \in i..Len(specs) : Covers(specs[k], line_offset)}
    IN  IF c = {} THEN 0 ELSE CHOOSE k \in c : \A j \in c : j <= k

\* Index of the first entry at or after i that covers line_offset, 0 if none.
RECURSIVE FindFrom(_, _, _)
FindFrom(specs, i, line_offset) ==
    IF i > Len(specs) THEN 0
    ELSE IF Covers(specs[i], line_offset) THEN i
    ELSE FindFrom(specs, i + 1, line_offset)

\* Fault variant of match_line_offset: only the first entry is tested.
match_line_offset_first(s, line_offset) ==
    IF s.tag = "All" THEN TRUE
    ELSE Len(s.specs) > 0 /\ Covers(s.specs[1], line_offset)

\* The scan returns at the first entry that covers line_offset.
match_line_offset(s, line_offset) ==
    IF s.tag = "All" THEN TRUE
    ELSE FindFrom(s.specs, 1, line_offset) # 0

\* Fault variant of add: the 1-based line number is stored.
add_one_based(s, line_offset) ==
    IF s.tag = "All" THEN s
    ELSE Partial(Append(s.specs,
            Line(IF line_offset = U16_MAX THEN U16_MAX ELSE line_offset + 1)))

\* Fault variant of add: an offset the spec already matches is not added again.
add_dedup(s, line_offset) ==
    IF s.tag = "All" THEN s
    ELSE IF FindFrom(s.specs, 1, line_offset) # 0 THEN s
    ELSE Partial(Append(s.specs, Line(line_offset)))

add(s, line_offset) ==
    IF s.tag = "All" THEN s
    ELSE Partial(Append(s.specs, Line(line_offset)))

Replace(specs, idx, new) ==
    SubSeq(specs, 1, idx - 1) \o new \o SubSeq(specs, idx + 1, Len(specs))

\* Fault variant of remove: a Range that covers line_offset is always split.
remove_always_split(s, line_offset, overflow_checks) ==
    IF s.tag = "All" THEN
        IF line_offset = U16_MAX /\ overflow_checks
        THEN [res |-> "panic", val |-> s]
        ELSE [res |-> "ok",
              val |-> Partial(<<Range(0, line_offset),
                                Range((line_offset + 1) % (U16_MAX + 1), U16_MAX)>>)]
    ELSE
        LET idx == FindFrom(s.specs, 1, line_offset)
        IN  IF idx = 0 THEN [res |-> "ok", val |-> s]
            ELSE IF s.specs[idx][1] = "Line"
            THEN [res |-> "ok", val |-> Partial(Replace(s.specs, idx, <<>>))]
            ELSE [res |-> "ok",
                  val |-> Partial(Replace(s.specs, idx,
                            <<Range(s.specs[idx][2], line_offset),
                              Range(line_offset + 1, s.specs[idx][3])>>))]

\* Fault variant of remove: the entry that covers line_offset is deleted whole.
remove_whole_entry(s, line_offset, overflow_checks) ==
    IF s.tag = "All" THEN
        IF line_offset = U16_MAX /\ overflow_checks
        THEN [res |-> "panic", val |-> s]
        ELSE [res |-> "ok",
              val |-> Partial(<<Range(0, line_offset),
                                Range((line_offset + 1) % (U16_MAX + 1), U16_MAX)>>)]
    ELSE
        LET idx == FindFrom(s.specs, 1, line_offset)
        IN  IF idx = 0 THEN [res |-> "ok", val |-> s]
            ELSE [res |-> "ok", val |-> Partial(Replace(s.specs, idx, <<>>))]

\* remove on All computes line_offset + 1 in u16: with overflow checks the
\* addition panics at u16::MAX, without them it wraps to 0.
remove(s, line_offset, overflow_checks) ==
    IF s.tag = "All" THEN
        IF line_offset = U16_MAX /\ overflow_checks
        THEN [res |-> "panic", val |-> s]
        ELSE [res |-> "ok",
              val |-> Partial(<<Range(0, line_offset),
                                Range((line_offset + 1) % (U16_MAX + 1), U16_MAX)>>)]
    ELSE
        LET specs == s.specs
            idx == FindFrom(specs, 1, line_offset)
        IN  IF idx = 0 THEN [res |-> "ok", val |-> s]
            ELSE IF specs[idx][1] = "Line"
            THEN [res |-> "ok", val |-> Partial(Replace(specs, idx, <<>>))]
            ELSE
                LET l == specs[idx][2]
                    r == specs[idx][3]
                IN  IF r - l = 1
                    THEN [res |-> "ok", val |-> Partial(Replace(specs, idx, <<Line(l)>>))]
                    ELSE IF l = line_offset
                    THEN [res |-> "ok",
                          val |-> Partial(Replace(specs, idx, <<Range(l + 1, r)>>))]
                    ELSE IF r = line_offset + 1
                    THEN [res |-> "ok",
                          val |-> Partial(Replace(specs, idx, <<Range(l, r - 1)>>))]
                    ELSE [res |-> "ok",
                          val |-> Partial(Replace(specs, idx,
                                    <<Range(l, line_offset), Range(line_offset + 1, r)>>))]

(***************************************************************************)
(* optimize: the presence table has u16::MAX entries, indices              *)
(* 0..u16::MAX-1; an index outside it panics.                              *)
(***************************************************************************)
TableIdx == 0..(U16_MAX - 1)

\* First loop: TRUE when some write indexes past the table (index out of bounds).
MarkPanics(specs) ==
    \E i \in 1..Len(specs) :
        \/ specs[i][1] = "Line" /\ specs[i][2] \notin TableIdx
        \/ specs[i][1] = "Range" /\
             \E o \in U16 : specs[i][2] <= o /\ o < specs[i][3] /\ o \notin TableIdx

\* Fault variant of line_offset_map: a Range marks l..=r.
line_offset_map_inclusive(specs) ==
    [o \in TableIdx |->
        \E i \in 1..Len(specs) :
            \/ specs[i][1] = "Line" /\ specs[i][2] = o
            \/ specs[i][1] = "Range" /\ specs[i][2] <= o /\ o <= specs[i][3]]

\* First loop: the table after every interval has been marked.
line_offset_map(specs) ==
    [o \in TableIdx |->
        \E i \in 1..Len(specs) :
            \/ specs[i][1] = "Line" /\ specs[i][2] = o
            \/ specs[i][1] = "Range" /\ specs[i][2] <= o /\ o < specs[i][3]]

\* Fault variant of Scan: a closed run is always pushed as a Range.
RECURSIVE ScanAllRanges(_, _, _, _)
ScanAllRanges(map, line_offset, left, result) ==
    IF line_offset = U16_MAX THEN
        IF left # -1 THEN Append(result, Range(left, U16_MAX)) ELSE result
    ELSE IF left = -1 /\ map[line_offset]
    THEN ScanAllRanges(map, line_offset + 1, line_offset, result)
    ELSE IF left # -1 /\ ~map[line_offset]
    THEN ScanAllRanges(map, line_offset + 1, -1,
            Append(result, Range(left, line_offset)))
    ELSE ScanAllRanges(map, line_offset + 1, left, result)

\* Second loop, from table index line_offset on: left = -1 stands for
\* left_value = None; the loop ends at the table's length, u16::MAX.
RECURSIVE Scan(_, _, _, _)
Scan(map, line_offset, left, result) ==
    IF line_offset = U16_MAX THEN
        IF left # -1 THEN Append(result, Range(left, U16_MAX)) ELSE result
    ELSE IF left = -1 /\ map[line_offset]
    THEN Scan(map, line_offset + 1, line_offset, result)
    ELSE IF left # -1 /\ ~map[line_offset]
    THEN Scan(map, line_offset + 1, -1,
            IF line_offset - left = 1
            THEN Append(result, Line(left))
            ELSE Append(result, Range(left, line_offset)))
    ELSE Scan(map, line_offset + 1, left, result)

rebuild_partial_specs(specs) ==
    IF MarkPanics(specs) THEN [res |-> "panic", val |-> specs]
    ELSE [res |-> "ok", val |-> Scan(line_offset_map(specs), 0, -1, <<>>)]

optimize(s) ==
    IF s.tag = "All" THEN [res |-> "ok", val |-> s]
    ELSE LET tmp == rebuild_partial_specs(s.specs)
         IN  [res |-> tmp.res, val |-> Partial(tmp.val)]

(***************************************************************************)
(* Text: a line is a sequence of one-character strings; a file is a        *)
(* sequence of lines, each ended by a newline on disk.                     *)
(***************************************************************************)
NL == "\n"
ALL_MAGIC == <<"-", "*", "-", " ", "a", "l", "l", " ", "-", "*", "-">>

Digits == <<"0", "1", "2", "3", "4", "5", "6", "7", "8", "9">>
IsDigit(c) == \E d \in 1..10 : Digits[d] = c
DigitVal(c) == (CHOOSE d \in 1..10 : Digits[d] = c) - 1
\* \s of the regex crate, over the characters the model uses.
IsSpace(c) == c \in {" ", NL, "\t", "\r"}

Max(S) == CHOOSE x \in S : \A y \in S : y <= x

\* line.trim_end_matches('\n')
trim_end_matches(buf) ==
    SubSeq(buf, 1, Max({0} \cup {k \in 1..Len(buf) : buf[k] # NL}))

starts_with(line, c) == Len(line) > 0 /\ line[1] = c

contains(line, needle) ==
    \E k \in 0..(Len(line) - Len(needle)) :
        SubSeq(line, k + 1, k + Len(needle)) = needle

\* Last position at or before n that holds no whitespace (no digit), 0 if none.
SkipSpaceBack(t, n) == Max({0} \cup {k \in 1..n : ~IsSpace(t[k])})
SkipDigitsBack(t, n) == Max({0} \cup {k \in 1..n : ~IsDigit(t[k])})

\* NUM_REGEX  \s*(\d+)\s*$  searched in t: the match ends at the end of the text
\* and the leftmost match takes the whole digit run before the trailing spaces.
NUM_REGEX(t) ==
    LET e == SkipSpaceBack(t, Len(t))
        s == SkipDigitsBack(t, e)
    IN  IF e > 0 /\ IsDigit(t[e])
        THEN [matched |-> TRUE, cap1 |-> SubSeq(t, s + 1, e)]
        ELSE [matched |-> FALSE, cap1 |-> <<>>]

\* RANGE_REGEX  \s*(\d+)\s*-\s*(\d+)\s*$  searched in t.
RANGE_REGEX(t) ==
    LET e2 == SkipSpaceBack(t, Len(t))
        s2 == SkipDigitsBack(t, e2)
        d  == SkipSpaceBack(t, s2)
        e1 == IF d > 0 THEN SkipSpaceBack(t, d - 1) ELSE 0
        s1 == SkipDigitsBack(t, e1)
    IN  IF /\ e2 > 0 /\ IsDigit(t[e2])
           /\ d > 0 /\ t[d] = "-"
           /\ e1 > 0 /\ IsDigit(t[e1])
        THEN [matched |-> TRUE, cap1 |-> SubSeq(t, s1 + 1, e1),
              cap2 |-> SubSeq(t, s2 + 1, e2)]
        ELSE [matched |-> FALSE, cap1 |-> <<>>, cap2 |-> <<>>]

\* str::parse::<u16>() of a non-empty digit string: -1 stands for the overflow Err.
RECURSIVE DecValue(_)
DecValue(ds) ==
    IF ds = <<>> THEN 0
    ELSE 10 * DecValue(SubSeq(ds, 1, Len(ds) - 1)) + DigitVal(ds[Len(ds)])

parse_u16(ds) == IF DecValue(ds) > U16_MAX THEN -1 ELSE DecValue(ds)

saturating_sub(n, k) == IF n < k THEN 0 ELSE n - k
saturating_add(n, k) == IF n + k > U16_MAX THEN U16_MAX ELSE n + k

\* format!("{}", n)
RECURSIVE ToDigits(_)
ToDigits(n) ==
    IF n < 10 THEN <<Digits[n + 1]>>
    ELSE Append(ToDigits(n \div 10), Digits[(n % 10) + 1])

\* Fault variant of parse_directive: the number pattern is tried first.
parse_directive_num_first(line) ==
    LET rc == RANGE_REGEX(line)
        nc == NUM_REGEX(line)
    IN  IF nc.matched THEN
            LET num == parse_u16(nc.cap1)
            IN  IF num = -1 THEN [res |-> "err", val |-> <<>>]
                ELSE [res |-> "ok", val |-> Line(saturating_sub(num, 1))]
        ELSE IF rc.matched THEN
            LET from == parse_u16(rc.cap1)
                to == parse_u16(rc.cap2)
            IN  IF from = -1 \/ to = -1 THEN [res |-> "err", val |-> <<>>]
                ELSE [res |-> "ok",
                      val |-> Range(saturating_sub(from, 1), saturating_sub(to, 1))]
        ELSE [res |-> "err", val |-> <<>>]

\* One line of parse_spec_file from the regex tests on: the SpecType, or an Err.
parse_directive(line) ==
    LET rc == RANGE_REGEX(line)
        nc == NUM_REGEX(line)
    IN  IF rc.matched THEN
            LET from == parse_u16(rc.cap1)
                to == parse_u16(rc.cap2)
            IN  IF from = -1 \/ to = -1 THEN [res |-> "err", val |-> <<>>]
                ELSE [res |-> "ok",
                      val |-> Range(saturating_sub(from, 1), saturating_sub(to, 1))]
        ELSE IF nc.matched THEN
            LET num == parse_u16(nc.cap1)
            IN  IF num = -1 THEN [res |-> "err", val |-> <<>>]
                ELSE [res |-> "ok", val |-> Line(saturating_sub(num, 1))]
        ELSE [res |-> "err", val |-> <<>>]

\* The read loop of parse_spec_file: line i of the file is appended to buf, which
\* the two `continue`s leave uncleared.
RECURSIVE ParseLoop(_, _, _, _)
ParseLoop(file, i, buf, specs) ==
    IF i > Len(file) THEN [res |-> "ok", val |-> Partial(specs)]
    ELSE
        LET buf2 == buf \o file[i] \o <<NL>>
            line == trim_end_matches(buf2)
        IN  IF line = <<>> THEN ParseLoop(file, i + 1, buf2, specs)
            ELSE IF starts_with(line, "#") THEN ParseLoop(file, i + 1, buf2, specs)
            ELSE IF contains(line, ALL_MAGIC) THEN [res |-> "ok", val |-> All]
            ELSE
                LET d == parse_directive(line)
                IN  IF d.res = "err" THEN [res |-> "err", val |-> NoSpec]
                    ELSE ParseLoop(file, i + 1, <<>>, Append(specs, d.val))

parse_spec_file(file) == ParseLoop(file, 1, <<>>, <<>>)

\* Fault variant of write_line: the offsets are written as they are stored.
write_line_zero_based(s) ==
    IF s[1] = "Line" THEN ToDigits(s[2])
    ELSE ToDigits(s[2]) \o <<"-">> \o ToDigits(s[3])

write_line(s) ==
    IF s[1] = "Line" THEN ToDigits(saturating_add(s[2], 1))
    ELSE ToDigits(saturating_add(s[2], 1)) \o <<"-">> \o ToDigits(saturating_add(s[3], 1))

\* The file content write_spec_file hands to fs::write.
write_spec_file(s) ==
    IF s.tag = "All" THEN <<ALL_MAGIC>>
    ELSE [i \in 1..Len(s.specs) |-> write_line(s.specs[i])]


(***************************************************************************)
(* file_status and print_file over a source file of n lines                *)
(***************************************************************************)
NoStatus == [n |-> -1, marked |-> 0, line_no |-> 0]
NoSave == [kind |-> "none", old |-> <<>>, new |-> <<>>]
NoSeen == [present |-> TRUE, content |-> <<>>, during |-> "none"]
NoPrint == [n |-> -1, lines |-> {}]

\* The counting loop of file_status after k lines: [res, marked, line_no].
\* A u16 "+= 1" at u16::MAX panics with overflow checks and wraps without.
RECURSIVE StatusLoop(_, _, _)
StatusLoop(s, k, overflow_checks) ==
    IF k = 0 THEN [res |-> "ok", marked |-> 0, line_no |-> 0]
    ELSE
        LET p == StatusLoop(s, k - 1, overflow_checks)
            line_no == (p.line_no + 1) % (U16_MAX + 1)
            hit == match_line_offset(s, line_no)
        IN  IF p.res # "ok" THEN p
            ELSE IF overflow_checks /\ p.line_no = U16_MAX
            THEN [res |-> "panic", marked |-> p.marked, line_no |-> p.line_no]
            ELSE IF hit /\ overflow_checks /\ p.marked = U16_MAX
            THEN [res |-> "panic", marked |-> p.marked, line_no |-> line_no]
            ELSE [res |-> "ok",
                  marked |-> IF hit THEN (p.marked + 1) % (U16_MAX + 1) ELSE p.marked,
                  line_no |-> line_no]

file_status(file, n, overflow_checks) ==
    LET p == parse_spec_file(file)
    IN  IF p.res # "ok" THEN [res |-> "err", marked |-> 0, line_no |-> 0]
        ELSE StatusLoop(p.val, n, overflow_checks)

\* print_file: the offsets of the lines written in colour. line_offset + 1 and
\* line_offset += 1 overflow on the line at offset u16::MAX.
print_file(s, n, overflow_checks) ==
    IF n > U16_MAX /\ overflow_checks THEN [res |-> "panic", lines |-> {}]
    ELSE [res |-> "ok",
          lines |-> {o \in U16 : match_line_offset(s, o) /\
                        \E k \in 0..(n - 1) : k % (U16_MAX + 1) = o}]

(***************************************************************************)
(* Inputs                                                                  *)
(***************************************************************************)
\* Lines an editor may leave in the temporary copy.
LineSamples ==
    { <<>>,                              \* blank
      <<"#", "c">>,                      \* comment
      <<"1">>, <<"3">>, <<"0">>,
      <<"1", "-", "3">>, <<"2", "-", "4">>, <<"3", "-", "1">>,
      <<"0", "-", "2">>,
      <<" ", "2", " ", "-", " ", "3", " ">>,
      <<"1", "2">>,                      \* more than u16::MAX
      <<"x">>,
      ALL_MAGIC }

\* Longest text the editor leaves.
MaxFileLines == 2

RECURSIVE Texts(_)
Texts(n) ==
    IF n = 0 THEN {<<>>}
    ELSE Texts(n - 1) \cup {Append(t, l) : t \in Texts(n - 1), l \in LineSamples}

EditorTexts == Texts(MaxFileLines)

\* The build's overflow checks (on in debug, off in release), where an addition
\* overflows; where none does the two builds agree.
OverflowBuilds(overflows) == IF overflows THEN BOOLEAN ELSE {TRUE}

(***************************************************************************)
(* The view session: ViewApp::new, the m and u keys, q                     *)
(***************************************************************************)
\* Spec files a view session starts from: new, all, and written ones.
ViewDisks == { <<>>, <<ALL_MAGIC>>, <<<<"1", "-", "3">>>> }

InitView ==
    /\ disk \in ViewDisks
    /\ spec = parse_spec_file(disk).val
    /\ lastOp = "new" /\ lastArg = 0 /\ outcome = "ok"
    /\ pc = "view"
    /\ tmpFile = <<>> /\ status = NoStatus /\ printed = NoPrint
    /\ exists = TRUE
    /\ save = NoSave /\ seen = NoSeen
    /\ env = [HOME |-> TRUE, EDITOR |-> TRUE] /\ accessed = {} /\ cmd = "none"
    /\ tree = <<>>
    /\ TermIdle /\ ParserIdle /\ MarkedIdle /\ CursorIdle

Add(o) ==
    /\ pc = "view"
    /\ Len(add(spec, o).specs) <= MaxSpecs
    /\ spec' = add(spec, o)
    /\ lastOp' = "add" /\ lastArg' = o /\ outcome' = "ok"
    /\ UNCHANGED <<disk, pc, tmpFile, status, printed>>
    /\ UNCHANGED <<exists, saveVars, envVars, tree, termVars, parserVars, markedFile, cursorVars>>

Remove(o) ==
    /\ pc = "view"
    /\ \E overflow_checks \in OverflowBuilds(spec.tag = "All" /\ o = U16_MAX) :
        LET r == remove(spec, o, overflow_checks)
        IN  /\ Len(r.val.specs) <= MaxSpecs
            /\ spec' = r.val
            /\ outcome' = r.res
            /\ pc' = IF r.res = "ok" THEN "view" ELSE "exit"
    /\ lastOp' = "remove" /\ lastArg' = o
    /\ UNCHANGED <<disk, tmpFile, status, printed>>
    /\ UNCHANGED <<exists, saveVars, envVars, tree, termVars, parserVars, markedFile, cursorVars>>

Optimize ==
    /\ pc = "view"
    /\ LET r == optimize(spec)
       IN  /\ spec' = r.val
           /\ outcome' = r.res
           /\ pc' = IF r.res = "ok" THEN "view" ELSE "exit"
    /\ lastOp' = "optimize" /\ lastArg' = 0
    /\ UNCHANGED <<disk, tmpFile, status, printed>>
    /\ UNCHANGED <<exists, saveVars, envVars, tree, termVars, parserVars, markedFile, cursorVars>>

\* q: the loop ends, then optimize and write_spec_file.
Quit ==
    /\ pc = "view"
    /\ LET r == optimize(spec)
       IN  /\ spec' = r.val
           /\ outcome' = r.res
           /\ disk' = IF r.res = "ok" THEN write_spec_file(r.val) ELSE disk
    /\ pc' = "exit"
    /\ lastOp' = "quit" /\ lastArg' = 0
    /\ UNCHANGED <<tmpFile, status, printed>>
    /\ UNCHANGED <<exists, saveVars, envVars, tree, termVars, parserVars, markedFile, cursorVars>>

NextView ==
    \/ \E o \in U16 : Add(o)
    \/ \E o \in U16 : Remove(o)
    \/ Optimize
    \/ Quit

Spec == InitView /\ [][NextView]_vars

(***************************************************************************)
(* Commands on the spec file: edit, status, print                          *)
(***************************************************************************)
InitFile ==
    /\ disk = <<>>
    /\ spec = NoSpec
    /\ lastOp = "new" /\ lastArg = 0 /\ outcome = "ok"
    /\ pc = "idle"
    /\ tmpFile = <<>> /\ status = NoStatus /\ printed = NoPrint
    /\ exists = FALSE
    /\ save = NoSave /\ seen = NoSeen
    /\ env = [HOME |-> TRUE, EDITOR |-> TRUE] /\ accessed = {} /\ cmd = "none"
    /\ tree = <<>>
    /\ TermIdle /\ ParserIdle /\ MarkedIdle /\ CursorIdle

\* Fault variant of EditStart: the editor is run on the spec file itself.
EditStartInPlace(text) ==
    /\ pc = "idle"
    /\ tmpFile' = text
    /\ disk' = text
    /\ spec' = NoSpec
    /\ pc' = "edit_parse"
    /\ lastOp' = "editor" /\ lastArg' = 0 /\ outcome' = "ok"
    /\ status' = NoStatus /\ printed' = NoPrint
    /\ exists' = TRUE
    /\ UNCHANGED <<saveVars, envVars, tree, termVars, parserVars, markedFile, cursorVars>>

\* EditCommand::run when edit_with_editor returns Err (EDITOR is not set or the
\* editor cannot be spawned): the temporary copy is dropped, the command ends.
EditorFails ==
    /\ pc = "idle"
    /\ tmpFile' = <<>>
    /\ spec' = NoSpec
    /\ lastOp' = "editor" /\ lastArg' = 0 /\ outcome' = "err"
    /\ status' = NoStatus /\ printed' = NoPrint
    /\ exists' = TRUE
    /\ UNCHANGED <<disk, pc, saveVars, envVars, tree, termVars, parserVars, markedFile, cursorVars>>

\* EditCommand::run up to the editor's exit: the editor leaves text in the copy.
EditStart(text) ==
    /\ pc = "idle"
    /\ tmpFile' = text
    /\ spec' = NoSpec
    /\ pc' = "edit_parse"
    /\ lastOp' = "editor" /\ lastArg' = 0 /\ outcome' = "ok"
    /\ status' = NoStatus /\ printed' = NoPrint
    /\ exists' = TRUE
    /\ UNCHANGED <<disk, saveVars, envVars, tree, termVars, parserVars, markedFile, cursorVars>>

\* parse_spec_file(tmp.path())?
EditParse ==
    /\ pc = "edit_parse"
    /\ LET p == parse_spec_file(tmpFile)
       IN  /\ spec' = p.val
           /\ outcome' = p.res
           /\ pc' = IF p.res = "ok" THEN "edit_save" ELSE "idle"
           /\ tmpFile' = IF p.res = "ok" THEN tmpFile ELSE <<>>
    /\ lastOp' = "parse" /\ lastArg' = 0
    /\ UNCHANGED <<disk, status, printed, exists, saveVars, envVars, tree, termVars, parserVars, markedFile, cursorVars>>

\* Fault variant of EditSave: the spec is written as parsed, without optimize.
EditSaveUnoptimized ==
    /\ pc = "edit_save"
    /\ spec' = spec
    /\ outcome' = "ok"
    /\ disk' = write_spec_file(spec)
    /\ pc' = "idle"
    /\ tmpFile' = <<>>
    /\ lastOp' = "write" /\ lastArg' = 0
    /\ status' = NoStatus /\ printed' = NoPrint
    /\ UNCHANGED <<exists, saveVars, envVars, tree, termVars, parserVars, markedFile, cursorVars>>

\* spec.optimize(); write_spec_file to a new temporary file; rename.
EditSave ==
    /\ pc = "edit_save"
    /\ LET r == optimize(spec)
       IN  /\ spec' = r.val
           /\ outcome' = r.res
           /\ disk' = IF r.res = "ok" THEN write_spec_file(r.val) ELSE disk
    /\ pc' = "idle"
    /\ tmpFile' = <<>>
    /\ lastOp' = "write" /\ lastArg' = 0
    /\ status' = NoStatus /\ printed' = NoPrint
    /\ UNCHANGED <<exists, saveVars, envVars, tree, termVars, parserVars, markedFile, cursorVars>>

\* edit --all
EditAll ==
    /\ pc = "idle"
    /\ disk' = <<ALL_MAGIC>>
    /\ spec' = NoSpec
    /\ lastOp' = "edit_all" /\ lastArg' = 0 /\ outcome' = "ok"
    /\ status' = NoStatus /\ printed' = NoPrint
    /\ exists' = TRUE
    /\ UNCHANGED <<pc, tmpFile, saveVars, envVars, tree, termVars, parserVars, markedFile, cursorVars>>

\* edit --reset: touch_file, then remove_file.
EditReset ==
    /\ pc = "idle"
    /\ disk' = <<>>
    /\ exists' = FALSE
    /\ spec' = NoSpec
    /\ lastOp' = "edit_reset" /\ lastArg' = 0 /\ outcome' = "ok"
    /\ status' = NoStatus /\ printed' = NoPrint
    /\ UNCHANGED <<pc, tmpFile, saveVars, envVars, tree, termVars, parserVars, markedFile, cursorVars>>

\* A command that loads the spec file: parse_spec_file(&spec_file_path).
LoadSpec ==
    /\ pc = "idle"
    /\ LET p == parse_spec_file(disk)
       IN  spec' = p.val /\ outcome' = p.res
    /\ lastOp' = "load" /\ lastArg' = 0
    /\ exists' = TRUE
    /\ UNCHANGED <<disk, pc, tmpFile, status, printed, saveVars, envVars, tree, termVars, parserVars, markedFile, cursorVars>>

\* status <file> on a source file of n lines.
FileStatus(n) ==
    /\ pc = "idle"
    /\ \E overflow_checks \in OverflowBuilds(n > U16_MAX) :
        LET r == file_status(disk, n, overflow_checks)
        IN  /\ outcome' = r.res
            /\ status' = IF r.res = "ok"
                         THEN [n |-> n, marked |-> r.marked, line_no |-> r.line_no]
                         ELSE NoStatus
    /\ spec' = NoSpec
    /\ lastOp' = "file_status" /\ lastArg' = 0
    /\ exists' = TRUE
    /\ UNCHANGED <<disk, pc, tmpFile, printed, saveVars, envVars, tree, termVars, parserVars, markedFile, cursorVars>>

\* print <file> on a source file of n lines.
PrintFile(n) ==
    /\ pc = "idle"
    /\ \E overflow_checks \in OverflowBuilds(n > U16_MAX) :
        LET p == parse_spec_file(disk)
            r == print_file(p.val, n, overflow_checks)
        IN  /\ outcome' = IF p.res # "ok" THEN "err" ELSE r.res
            /\ printed' = IF p.res = "ok" /\ r.res = "ok"
                          THEN [n |-> n, lines |-> r.lines]
                          ELSE NoPrint
    /\ spec' = NoSpec
    /\ lastOp' = "print" /\ lastArg' = 0
    /\ exists' = TRUE
    /\ UNCHANGED <<disk, pc, tmpFile, status, saveVars, envVars, tree, termVars, parserVars, markedFile, cursorVars>>

NextFile ==
    \/ \E text \in EditorTexts : EditStart(text)
    \/ EditorFails
    \/ EditParse
    \/ EditSave
    \/ EditAll
    \/ EditReset
    \/ LoadSpec
    \/ \E n \in 0..MaxSrcLines : FileStatus(n)
    \/ \E n \in 0..MaxSrcLines : PrintFile(n)

SpecFile == InitFile /\ [][NextFile]_vars

(***************************************************************************)
(* main: the view session and the commands on the spec file together       *)
(***************************************************************************)
InitMain == InitView \/ InitFile

NextMain == NextView \/ NextFile

SpecMain == InitMain /\ [][NextMain]_vars

(***************************************************************************)
(* A save step by step, with a reader of the spec file running beside it   *)
(***************************************************************************)
\* Optimized specs a command has in memory when it saves.
SaveSpecs ==
    { All, Partial(<<>>), Partial(<<Range(0, 2)>>),
      Partial(<<Line(0), Range(U16_MAX - 1, U16_MAX)>>) }

InitSave ==
    /\ \E s \in SaveSpecs : disk = write_spec_file(s)
    /\ exists = TRUE
    /\ spec = NoSpec
    /\ lastOp = "new" /\ lastArg = 0 /\ outcome = "ok"
    /\ pc = "idle"
    /\ tmpFile = <<>> /\ status = NoStatus /\ printed = NoPrint
    /\ save = NoSave /\ seen = NoSeen
    /\ env = [HOME |-> TRUE, EDITOR |-> TRUE] /\ accessed = {} /\ cmd = "none"
    /\ tree = <<>>
    /\ TermIdle /\ ParserIdle /\ MarkedIdle /\ CursorIdle

\* A command reaches the point where it saves s: edit after optimize (the new
\* NamedTempFile is next), edit --all after touch_file, the view session after
\* optimize.
SaveBegin(kind, s) ==
    /\ pc = "idle"
    /\ kind = "edit_all" => s = All
    /\ spec' = s
    /\ save' = [kind |-> kind, old |-> disk, new |-> write_spec_file(s)]
    /\ seen' = NoSeen
    /\ pc' = CASE kind = "edit" -> "write_tmp"
              [] kind = "edit_all" -> "remove"
              [] kind = "view" -> "create"
    /\ lastOp' = "save" /\ lastArg' = 0 /\ outcome' = "ok"
    /\ UNCHANGED <<disk, exists, tmpFile, status, printed, envVars, tree, termVars, parserVars, markedFile, cursorVars>>

\* edit: write_spec_file(tmp.path(), &spec)
WriteTemp ==
    /\ pc = "write_tmp"
    /\ tmpFile' = save.new
    /\ pc' = "rename"
    /\ lastOp' = "write_tmp"
    /\ UNCHANGED <<disk, exists, spec, lastArg, outcome, status, printed,
                   saveVars, envVars, tree, termVars, parserVars, markedFile, cursorVars>>

\* edit: fs::rename(tmp.path(), &spec_file_path)
Rename ==
    /\ pc = "rename"
    /\ disk' = tmpFile
    /\ exists' = TRUE
    /\ tmpFile' = <<>>
    /\ pc' = "idle"
    /\ lastOp' = "rename"
    /\ UNCHANGED <<spec, lastArg, outcome, status, printed, saveVars, envVars, tree, termVars, parserVars, markedFile, cursorVars>>

\* edit --all: if spec_file_path.exists() { fs::remove_file(&spec_file_path)? }
RemoveFile ==
    /\ pc = "remove"
    /\ disk' = <<>>
    /\ exists' = FALSE
    /\ pc' = "create"
    /\ lastOp' = "remove_file"
    /\ UNCHANGED <<spec, lastArg, outcome, tmpFile, status, printed,
                   saveVars, envVars, tree, termVars, parserVars, markedFile, cursorVars>>

\* fs::write, first half: File::create opens the spec file itself, creating it
\* or truncating it to length 0.
CreateTruncate ==
    /\ pc = "create"
    /\ disk' = <<>>
    /\ exists' = TRUE
    /\ pc' = "write_all"
    /\ lastOp' = "create"
    /\ UNCHANGED <<spec, lastArg, outcome, tmpFile, status, printed,
                   saveVars, envVars, tree, termVars, parserVars, markedFile, cursorVars>>

\* fs::write, second half: write_all of the buffer.
WriteAll ==
    /\ pc = "write_all"
    /\ disk' = save.new
    /\ pc' = "idle"
    /\ lastOp' = "write_all"
    /\ UNCHANGED <<exists, spec, lastArg, outcome, tmpFile, status, printed,
                   saveVars, envVars, tree, termVars, parserVars, markedFile, cursorVars>>

\* Another process opens the spec file and reads it to the end while the save is
\* under way.
Reader ==
    /\ pc # "idle"
    /\ seen' = [present |-> exists, content |-> disk, during |-> pc]
    /\ UNCHANGED <<disk, exists, spec, lastOp, lastArg, outcome, pc, tmpFile,
                   status, printed, save, envVars, tree, termVars, parserVars, markedFile, cursorVars>>

NextSave ==
    \/ \E kind \in {"edit", "edit_all", "view"}, s \in SaveSpecs : SaveBegin(kind, s)
    \/ WriteTemp
    \/ Rename
    \/ RemoveFile
    \/ CreateTruncate
    \/ WriteAll
    \/ Reader

SpecSave == InitSave /\ [][NextSave]_vars

(***************************************************************************)
(* A command statement by statement: the environment and the files it      *)
(* touches                                                                 *)
(***************************************************************************)
Commands == {"print", "edit", "edit_reset", "edit_all", "view", "status"}

InitEnv ==
    /\ env \in [HOME : BOOLEAN, EDITOR : BOOLEAN]
    /\ exists \in BOOLEAN
    /\ disk \in (IF exists THEN {<<>>, <<ALL_MAGIC>>} ELSE {<<>>})
    /\ spec = NoSpec
    /\ lastOp = "new" /\ lastArg = 0 /\ outcome = "ok"
    /\ pc = "idle"
    /\ tmpFile = <<>> /\ status = NoStatus /\ printed = NoPrint
    /\ save = NoSave /\ seen = NoSeen
    /\ accessed = {} /\ cmd = "none"
    /\ tree = <<>>
    /\ TermIdle /\ ParserIdle /\ MarkedIdle /\ CursorIdle

\* main: init_logger creates the log file, then the command is dispatched. edit
\* starts with get_spec_file_dir, status with file_path.is_dir(), the others
\* with get_spec_file_path.
Run(c) ==
    /\ pc = "idle"
    /\ cmd' = c
    /\ accessed' = {"log"}
    /\ pc' = CASE c \in {"edit", "edit_reset", "edit_all"} -> "spec_dir"
              [] c = "status" -> "is_dir"
              [] OTHER -> "canonicalize"
    /\ lastOp' = "run" /\ outcome' = "ok"
    /\ UNCHANGED <<disk, exists, spec, lastArg, tmpFile, status, printed,
                   saveVars, env, tree, termVars, parserVars, markedFile, cursorVars>>

\* The command ends here: with a failure, or after its last statement.
Ended(op, res) == pc' = "idle" /\ lastOp' = op /\ outcome' = res

\* get_spec_file_dir: env::var("HOME").expect(..), called by EditCommand::run
\* first and by get_spec_file_path after canonicalize.
GetSpecFileDir ==
    /\ pc \in {"spec_dir", "path_dir"}
    /\ IF env.HOME
       THEN /\ pc' = (IF pc = "spec_dir" THEN "canonicalize" ELSE "touch")
            /\ lastOp' = "get_spec_file_dir" /\ outcome' = "ok"
       ELSE Ended("get_spec_file_dir", "env")
    /\ UNCHANGED <<disk, exists, spec, lastArg, tmpFile, status, printed,
                   saveVars, env, accessed, cmd, tree, termVars, parserVars, markedFile, cursorVars>>

\* StatusCommand::run: file_path.is_dir() looks the source path up on disk.
IsDir ==
    /\ pc = "is_dir"
    /\ accessed' = accessed \cup {"source"}
    /\ pc' = "canonicalize"
    /\ lastOp' = "is_dir"
    /\ UNCHANGED <<disk, exists, spec, lastArg, outcome, tmpFile, status, printed,
                   saveVars, env, cmd, tree, termVars, parserVars, markedFile, cursorVars>>

\* get_spec_file_path: fs::canonicalize(file_path).expect(..) resolves the source
\* path on disk and panics when there is no such file.
Canonicalize ==
    /\ pc = "canonicalize"
    /\ accessed' = accessed \cup {"source"}
    /\ \E found \in BOOLEAN :
        IF found THEN pc' = "path_dir" /\ lastOp' = "canonicalize" /\ outcome' = "ok"
        ELSE Ended("canonicalize", "panic")
    /\ UNCHANGED <<disk, exists, spec, lastArg, tmpFile, status, printed,
                   saveVars, env, cmd, tree, termVars, parserVars, markedFile, cursorVars>>

\* touch_file: looks the spec file up and creates directory and file if needed.
TouchFile ==
    /\ pc = "touch"
    /\ accessed' = accessed \cup (IF exists THEN {"spec_file"} ELSE {"spec_file", "spec_dir"})
    /\ exists' = TRUE
    /\ pc' = CASE cmd = "edit" -> "tmp_copy"
              [] cmd = "edit_reset" -> "reset"
              [] cmd = "edit_all" -> "all"
              [] OTHER -> "load"
    /\ lastOp' = "touch_file"
    /\ UNCHANGED <<disk, spec, lastArg, outcome, tmpFile, status, printed,
                   saveVars, env, cmd, tree, termVars, parserVars, markedFile, cursorVars>>

\* edit --reset: fs::remove_file
ResetFile ==
    /\ pc = "reset"
    /\ disk' = <<>> /\ exists' = FALSE
    /\ Ended("remove_file", "ok")
    /\ UNCHANGED <<spec, lastArg, tmpFile, status, printed, saveVars, envVars, tree, termVars, parserVars, markedFile, cursorVars>>

\* edit --all: remove_file and fs::write of the magic line
WriteMagic ==
    /\ pc = "all"
    /\ disk' = <<ALL_MAGIC>>
    /\ Ended("write_magic", "ok")
    /\ UNCHANGED <<exists, spec, lastArg, tmpFile, status, printed, saveVars, envVars, tree, termVars, parserVars, markedFile, cursorVars>>

\* edit: NamedTempFile::new_in, File::open of the spec file, io::copy
TempCopy ==
    /\ pc = "tmp_copy"
    /\ tmpFile' = disk
    /\ accessed' = accessed \cup {"temp"}
    /\ pc' = "editor"
    /\ lastOp' = "tmp_copy"
    /\ UNCHANGED <<disk, exists, spec, lastArg, outcome, status, printed,
                   saveVars, env, cmd, tree, termVars, parserVars, markedFile, cursorVars>>

\* edit_with_editor: env::var("EDITOR").context(..)?, then the editor runs (and
\* here leaves the copy as it is); the copy is parsed, optimized and saved.
EditWithEditor ==
    /\ pc = "editor"
    /\ IF env.EDITOR
       THEN LET r == optimize(parse_spec_file(tmpFile).val)
            IN  /\ disk' = IF r.res = "ok" THEN write_spec_file(r.val) ELSE disk
                /\ Ended("editor", r.res)
       ELSE /\ Ended("editor", "env")
            /\ UNCHANGED disk
    /\ tmpFile' = <<>>
    /\ UNCHANGED <<exists, spec, lastArg, status, printed, saveVars, envVars, tree, termVars, parserVars, markedFile, cursorVars>>

\* print, view, status: parse_spec_file and the read of the source file
LoadAndRead ==
    /\ pc = "load"
    /\ accessed' = accessed \cup {"spec_file", "source"}
    /\ Ended("load", parse_spec_file(disk).res)
    /\ UNCHANGED <<disk, exists, spec, lastArg, tmpFile, status, printed,
                   saveVars, env, cmd, tree, termVars, parserVars, markedFile, cursorVars>>

NextEnv ==
    \/ \E c \in Commands : Run(c)
    \/ GetSpecFileDir
    \/ IsDir
    \/ Canonicalize
    \/ TouchFile
    \/ ResetFile
    \/ WriteMagic
    \/ TempCopy
    \/ EditWithEditor
    \/ LoadAndRead

SpecEnv == InitEnv /\ [][NextEnv]_vars

(***************************************************************************)
(* status on a directory                                                   *)
(***************************************************************************)
\* Most entries of the directory handed to status, and of a directory inside it.
MaxEntries == 3
MaxSubEntries == 1

\* A regular file of the tree: its spec file, the number of lines of the source
\* and whether the source can be opened and read.
FileEntry(file, n, readable) ==
    [kind |-> "file", file |-> file, n |-> n, readable |-> readable, entries |-> <<>>]
DirEntry(entries) ==
    [kind |-> "dir", file |-> <<>>, n |-> 0, readable |-> TRUE, entries |-> entries]

FileSamples ==
    { FileEntry(<<>>, 1, TRUE),                   \* nothing marked
      FileEntry(<<>>, 2, TRUE),
      FileEntry(<<ALL_MAGIC>>, 2, TRUE),          \* all marked
      FileEntry(<<<<"x">>>>, 1, TRUE),            \* spec file that does not parse
      FileEntry(<<>>, 1, FALSE) }                 \* source that cannot be read

RECURSIVE SeqsUpTo(_, _)
SeqsUpTo(S, n) ==
    IF n = 0 THEN {<<>>}
    ELSE SeqsUpTo(S, n - 1) \cup {Append(t, e) : t \in SeqsUpTo(S, n - 1), e \in S}

Entries == FileSamples \cup {DirEntry(t) : t \in SeqsUpTo(FileSamples, MaxSubEntries)}
Trees == SeqsUpTo(Entries, MaxEntries)

\* file_status on an entry: File::open(file_path)? fails on an unreadable source.
entry_file_status(e, overflow_checks) ==
    IF ~e.readable THEN [res |-> "err", marked |-> 0, line_no |-> 0]
    ELSE file_status(e.file, e.n, overflow_checks)

\* directory_status: the loop over read_dir from entry i on, with the two u16
\* accumulators; a directory entry starts the loop anew on its own entries.
RECURSIVE DirLoop(_, _, _, _, _)

\* `let status = ..?; marked += status.marked; line_no += status.line_no;` and
\* on to the next entry. "+=" panics on overflow with overflow checks and wraps
\* without.
Accumulate(entries, i, marked, line_no, overflow_checks, st) ==
    IF st.res # "ok" THEN [res |-> st.res, marked |-> 0, line_no |-> 0]
    ELSE IF overflow_checks /\ marked + st.marked > U16_MAX
    THEN [res |-> "panic", marked |-> 0, line_no |-> 0]
    ELSE IF overflow_checks /\ line_no + st.line_no > U16_MAX
    THEN [res |-> "panic", marked |-> 0, line_no |-> 0]
    ELSE DirLoop(entries, i + 1,
                 (marked + st.marked) % (U16_MAX + 1),
                 (line_no + st.line_no) % (U16_MAX + 1),
                 overflow_checks)

DirLoop(entries, i, marked, line_no, overflow_checks) ==
    IF i > Len(entries) THEN [res |-> "ok", marked |-> marked, line_no |-> line_no]
    ELSE Accumulate(entries, i, marked, line_no, overflow_checks,
                    IF entries[i].kind = "dir"
                    THEN DirLoop(entries[i].entries, 1, 0, 0, overflow_checks)
                    ELSE entry_file_status(entries[i], overflow_checks))

directory_status(entries, overflow_checks) == DirLoop(entries, 1, 0, 0, overflow_checks)

InitDir ==
    /\ tree \in Trees
    /\ TermIdle /\ ParserIdle /\ MarkedIdle /\ CursorIdle
    /\ disk = <<>> /\ exists = FALSE
    /\ spec = NoSpec
    /\ lastOp = "new" /\ lastArg = 0 /\ outcome = "ok"
    /\ pc = "idle"
    /\ tmpFile = <<>> /\ status = NoStatus /\ printed = NoPrint
    /\ save = NoSave /\ seen = NoSeen
    /\ env = [HOME |-> TRUE, EDITOR |-> TRUE] /\ accessed = {} /\ cmd = "none"

\* status <dir>
DirectoryStatus ==
    /\ pc = "idle"
    /\ \E overflow_checks \in BOOLEAN :
        LET r == directory_status(tree, overflow_checks)
        IN  /\ outcome' = r.res
            /\ status' = IF r.res = "ok"
                         THEN [n |-> 0, marked |-> r.marked, line_no |-> r.line_no]
                         ELSE NoStatus
    /\ lastOp' = "directory_status"
    /\ UNCHANGED <<disk, exists, spec, lastArg, pc, tmpFile, printed,
                   saveVars, envVars, tree, termVars, parserVars, markedFile, cursorVars>>

NextDir == DirectoryStatus

SpecDir == InitDir /\ [][NextDir]_vars


(***************************************************************************)
(* file::Line and file::Marked: the flags of the lines of a file           *)
(***************************************************************************)
MaxMarkedLines == 3

\* From<&str> for Line: the text, with the default flags.
NewLine(s) == [str |-> s, mark |-> FALSE, ignore |-> FALSE]

\* Fault variant of set: one flag at a time, setting one clears the other.
set_exclusive(line, mark_type) ==
    IF mark_type = "Mark"
    THEN [line EXCEPT !.mark = TRUE, !.ignore = FALSE]
    ELSE [line EXCEPT !.ignore = TRUE, !.mark = FALSE]

set(line, mark_type) ==
    IF mark_type = "Mark"
    THEN [line EXCEPT !.mark = TRUE]
    ELSE [line EXCEPT !.ignore = TRUE]

Type == {"Mark", "Ignore"}

\* The texts of the lines a Marked is built from.
MarkedTexts == {"hogehoge", "fugafuga"}

InitMarked ==
    /\ disk = <<>> /\ spec = NoSpec
    /\ lastOp = "new" /\ lastArg = 0 /\ outcome = "ok"
    /\ pc = "idle"
    /\ tmpFile = <<>> /\ status = NoStatus /\ printed = NoPrint
    /\ exists = FALSE
    /\ save = NoSave /\ seen = NoSeen
    /\ env = [HOME |-> TRUE, EDITOR |-> TRUE] /\ accessed = {} /\ cmd = "none"
    /\ tree = <<>>
    /\ TermIdle /\ ParserIdle /\ CursorIdle
    /\ \E n \in 1..MaxMarkedLines : \E texts \in [1..n -> MarkedTexts] :
        markedFile = [i \in 1..n |-> NewLine(texts[i])]

\* file[i].set(mark_type), through DerefMut for Marked.
SetLine(i, mark_type) ==
    /\ i \in 1..Len(markedFile)
    /\ markedFile' = [markedFile EXCEPT ![i] = set(@, mark_type)]
    /\ lastOp' = "set" /\ lastArg' = <<i, mark_type>> /\ outcome' = "ok"
    /\ UNCHANGED <<disk, spec, pc, tmpFile, status, printed>>
    /\ UNCHANGED <<exists, saveVars, envVars, tree, termVars, parserVars, cursorVars>>

NextMarked == \E i \in 1..MaxMarkedLines : \E mark_type \in Type : SetLine(i, mark_type)

SpecMarked == InitMarked /\ [][NextMarked]_vars

(***************************************************************************)
(* parse::Parser: the path list. Each line names a directory, a file or a  *)
(* part of a file, and may end with 'ignore and with a # comment.          *)
(***************************************************************************)
MaxListLines == 2

\* spec::Spec (Line and Range as above), spec::Target and spec::Marking.
Regex(re) == <<"Regex", re>>
Dir(path) == <<"Dir", path>>
File(path) == <<"File", path>>
FileSpec(path, s) == <<"FileSpec", path, s>>
Marking(target, mark_type) == [target |-> target, mark_type |-> mark_type]

IGNORE_TEXT == <<"'", "i", "g", "n", "o", "r", "e">>

ends_with(t, suffix) ==
    /\ Len(t) >= Len(suffix)
    /\ SubSeq(t, Len(t) - Len(suffix) + 1, Len(t)) = suffix

FirstOf(S) == CHOOSE x \in S : \A y \in S : x <= y

\* From<&String> for Type: IGNORE  'ignore$
TypeFrom(line) == IF ends_with(line, IGNORE_TEXT) THEN "Ignore" ELSE "Mark"

\* IGNORE.replace_all(line, ""), IGNORE  \s*('ignore)$ : the one match starts at
\* the whitespace before the marker.
IGNORE(line) ==
    IF ends_with(line, IGNORE_TEXT)
    THEN SubSeq(line, 1, SkipSpaceBack(line, Len(line) - Len(IGNORE_TEXT)))
    ELSE line

\* COMMENT.replace_all(line, ""), COMMENT  \s*(#.*)$ : the leftmost match starts
\* at the whitespace before the first # of the line and runs to its end.
COMMENT(line) ==
    LET hashes == {k \in 1..Len(line) : line[k] = "#"}
    IN  IF hashes = {} THEN line
        ELSE SubSeq(line, 1, SkipSpaceBack(line, FirstOf(hashes) - 1))

\* NUM  :\s*(\d+)\s*$
NUM(t) ==
    LET e == SkipSpaceBack(t, Len(t))
        s == SkipDigitsBack(t, e)
        c == SkipSpaceBack(t, s)
    IN  IF e > 0 /\ IsDigit(t[e]) /\ c > 0 /\ t[c] = ":"
        THEN [matched |-> TRUE, cap1 |-> SubSeq(t, s + 1, e)]
        ELSE [matched |-> FALSE, cap1 |-> <<>>]

\* RANGE  :\s*(\d+)\s*-\s*(\d+)\s*$
RANGE(t) ==
    LET e2 == SkipSpaceBack(t, Len(t))
        s2 == SkipDigitsBack(t, e2)
        d  == SkipSpaceBack(t, s2)
        e1 == IF d > 0 THEN SkipSpaceBack(t, d - 1) ELSE 0
        s1 == SkipDigitsBack(t, e1)
        c  == SkipSpaceBack(t, s1)
    IN  IF /\ e2 > 0 /\ IsDigit(t[e2])
           /\ d > 0 /\ t[d] = "-"
           /\ e1 > 0 /\ IsDigit(t[e1])
           /\ c > 0 /\ t[c] = ":"
        THEN [matched |-> TRUE, cap1 |-> SubSeq(t, s1 + 1, e1),
              cap2 |-> SubSeq(t, s2 + 1, e2)]
        ELSE [matched |-> FALSE, cap1 |-> <<>>, cap2 |-> <<>>]

\* RE  :\s*/(.*)/\s*$ : the closing / is the last character before the trailing
\* whitespace; the match starts at the leftmost colon that whitespace alone
\* separates from a / before it.
RE(t) ==
    LET e == SkipSpaceBack(t, Len(t))
        starts == {c \in 1..Len(t) :
                    /\ t[c] = ":"
                    /\ \E p \in (c + 1)..(e - 1) :
                        /\ t[p] = "/"
                        /\ \A k \in (c + 1)..(p - 1) : IsSpace(t[k])}
    IN  IF e > 0 /\ t[e] = "/" /\ starts # {}
        THEN LET c == FirstOf(starts)
                 p == FirstOf({k \in (c + 1)..(e - 1) : ~IsSpace(t[k])})
             IN  [matched |-> TRUE, cap1 |-> SubSeq(t, p + 1, e - 1)]
        ELSE [matched |-> FALSE, cap1 |-> <<>>]

\* The class [a-zA-Z0-9_\-/.]
IsPathChar(c) ==
    \/ IsDigit(c)
    \/ c \in {"_", "-", "/", "."}
    \/ c \in {"a", "b", "c", "d", "e", "f", "g", "h", "i", "j", "k", "l", "m",
              "n", "o", "p", "q", "r", "s", "t", "u", "v", "w", "x", "y", "z"}
    \/ c \in {"A", "B", "C", "D", "E", "F", "G", "H", "I", "J", "K", "L", "M",
              "N", "O", "P", "Q", "R", "S", "T", "U", "V", "W", "X", "Y", "Z"}

\* PATH_REGEX  ([a-zA-Z0-9_\-/.]+) : the first run of path characters.
PATH_REGEX(t) ==
    LET starts == {k \in 1..Len(t) : IsPathChar(t[k])}
    IN  IF starts = {} THEN [matched |-> FALSE, cap0 |-> <<>>]
        ELSE LET s == FirstOf(starts)
                 e == Max({j \in s..Len(t) : \A k \in s..j : IsPathChar(t[k])})
             IN  [matched |-> TRUE, cap0 |-> SubSeq(t, s, e)]

\* The directories and the files of the working directory; std::fs::metadata
\* fails on any other path.
ListDirs == { <<"s", "/">> }
ListFiles == { <<"s", "/", "m">> }
metadata(path) ==
    IF path \in ListDirs THEN "dir" ELSE IF path \in ListFiles THEN "file" ELSE "err"

\* The numbers of the model's lines are far below usize::MAX, so
\* str::parse::<usize>() is the decimal value.
parse_line(line0) ==
    LET mark_type == TypeFrom(line0)
        line == COMMENT(IGNORE(line0))
        s == IF NUM(line).matched
                 THEN <<Line(DecValue(NUM(line).cap1))>>
             ELSE IF RANGE(line).matched
                 THEN <<Range(DecValue(RANGE(line).cap1), DecValue(RANGE(line).cap2))>>
             ELSE IF RE(line).matched
                 THEN <<Regex(RE(line).cap1)>>
             ELSE <<>>
        path == PATH_REGEX(line).cap0
    IN  IF ~PATH_REGEX(line).matched THEN [res |-> "err", val |-> <<>>]
        ELSE IF s # <<>>
            THEN [res |-> "ok", val |-> Marking(FileSpec(path, s[1]), mark_type)]
        ELSE IF metadata(path) = "err" THEN [res |-> "err", val |-> <<>>]
        ELSE IF metadata(path) = "dir"
            THEN [res |-> "ok", val |-> Marking(Dir(path), mark_type)]
        ELSE [res |-> "ok", val |-> Marking(File(path), mark_type)]

\* Parser::parse: the markings of the lines that parse, in order; a line that
\* fails is skipped.
RECURSIVE parse(_)
parse(ls) ==
    IF ls = <<>> THEN <<>>
    ELSE LET r == parse_line(ls[Len(ls)])
             front == parse(SubSeq(ls, 1, Len(ls) - 1))
         IN  IF r.res = "ok" THEN Append(front, r.val) ELSE front

\* The lines of a path list: a path, then nothing, a line number, a range or a
\* regex, then nothing, the ignore marker or a comment.
ListPaths == { <<"s", "/">>, <<"s", "/", "m">> }
ListSpecTexts ==
    { <<>>, <<":", "1", "0">>, <<":", "1", "-", "2">>, <<":", "/", "h", "/">>,
      <<":", "/", "a", "#", "b", "/">> }
ListSuffixes == { <<>>, <<" ">> \o IGNORE_TEXT, <<" ", "#", " ", "c">> }
ListLines ==
    {path \o st \o suffix :
        path \in ListPaths, st \in ListSpecTexts, suffix \in ListSuffixes}

InitList ==
    /\ disk = <<>> /\ spec = NoSpec
    /\ lastOp = "new" /\ lastArg = 0 /\ outcome = "ok"
    /\ pc = "idle"
    /\ tmpFile = <<>> /\ status = NoStatus /\ printed = NoPrint
    /\ exists = FALSE
    /\ save = NoSave /\ seen = NoSeen
    /\ env = [HOME |-> TRUE, EDITOR |-> TRUE] /\ accessed = {} /\ cmd = "none"
    /\ tree = <<>>
    /\ TermIdle /\ ParserIdle /\ MarkedIdle /\ CursorIdle

\* parser.lines.push(line), what read_file does for each line of the list.
PushLine(line) ==
    /\ pc = "idle"
    /\ Len(lines) < MaxListLines
    /\ lines' = Append(lines, line)
    /\ lastOp' = "push" /\ lastArg' = 0 /\ outcome' = "ok"
    /\ UNCHANGED <<disk, spec, pc, tmpFile, status, printed, markings>>
    /\ UNCHANGED <<exists, saveVars, envVars, tree, termVars, markedFile, cursorVars>>

ParseList ==
    /\ pc = "idle"
    /\ markings' = parse(lines)
    /\ pc' = "exit"
    /\ lastOp' = "parse" /\ lastArg' = 0 /\ outcome' = "ok"
    /\ UNCHANGED <<disk, spec, tmpFile, status, printed, lines>>
    /\ UNCHANGED <<exists, saveVars, envVars, tree, termVars, markedFile, cursorVars>>

NextList ==
    \/ \E line \in ListLines : PushLine(line)
    \/ ParseList

SpecList == InitList /\ [][NextList]_vars

(***************************************************************************)
(* The view session with its cursor: ViewApp's key handlers and draw.      *)
(* The cursor fields keep the true width of u16, since the padding 5 and   *)
(* the 10 of Ctrl-d are literals of the code. The source has at most       *)
(* MaxViewLines lines, fewer than U16_MAX, so that every offset handed to  *)
(* add and remove is one the scaled u16 of the spec holds without wrapping.*)
(***************************************************************************)
MaxViewLines == 2
MaxInput == 1
CURSOR_U16_MAX == 65535
source_view_padding_height == 5
INITIAL_VIEW_HEIGHT == 80
PAGE == 10

\* u16 arithmetic at the true width.
CursorWrap(x) == x % (CURSOR_U16_MAX + 1)
CursorOverflows(x) == x < 0 \/ x > CURSOR_U16_MAX
cursor_saturating_add(n, k) == IF n + k > CURSOR_U16_MAX THEN CURSOR_U16_MAX ELSE n + k

\* update_offset: the new offset, or a panic where an addition or the
\* subtraction of the padding leaves u16 in a build with overflow checks;
\* without them the value wraps.
update_offset(cursor, off, height, overflow_checks) ==
    LET a == cursor + 1
        b == off + height
        c == CursorWrap(b) - source_view_padding_height
        first == CursorWrap(a) >= CursorWrap(c)
        e == CursorWrap(a) + source_view_padding_height
        off1 == IF first THEN saturating_sub(CursorWrap(e), height) ELSE off
        d == off1 + source_view_padding_height
        second == cursor < CursorWrap(d)
        off2 == IF second
                THEN saturating_sub(cursor, source_view_padding_height)
                ELSE off1
        overflows == \/ CursorOverflows(a) \/ CursorOverflows(b) \/ CursorOverflows(c)
                     \/ (first /\ CursorOverflows(e))
                     \/ CursorOverflows(d)
    IN  IF overflow_checks /\ overflows
        THEN [res |-> "panic", offset |-> off]
        ELSE [res |-> "ok", offset |-> off2]

\* index.min(self.source_line_len)
clamp(index, source_line_len) ==
    IF index < source_line_len THEN index ELSE source_line_len

\* prev_matched_index and next_matched_index over 0-based line indexes: the set
\* is empty for None.
prev_matched_index(needle) ==
    IF cursor_line_offset = 0 THEN {}
    ELSE LET found == {i \in 0..(cursor_line_offset - 1) :
                        contains(source_lines[i + 1], needle)}
         IN  IF found = {} THEN {} ELSE {Max(found)}

next_matched_index(needle) ==
    IF cursor_line_offset + 1 >= Len(source_lines) THEN {}
    ELSE LET found == {i \in (cursor_line_offset + 1)..(Len(source_lines) - 1) :
                        contains(source_lines[i + 1], needle)}
         IN  IF found = {} THEN {} ELSE {FirstOf(found)}

\* The texts of the source lines and the characters typed in a search.
ViewLineTexts == { <<"a">>, <<"b">> }
ViewChars == {"a", "b"}
\* The heights of the source view the terminal reports to ui.
ViewHeights == {1, 4, 5, 6, INITIAL_VIEW_HEIGHT}
\* The session starts on a new spec file.
CursorDisks == { <<>> }

InitCursor ==
    /\ disk \in CursorDisks
    /\ spec = parse_spec_file(disk).val
    /\ lastOp = "new" /\ lastArg = 0 /\ outcome = "ok"
    /\ pc = "view"
    /\ tmpFile = <<>> /\ status = NoStatus /\ printed = NoPrint
    /\ exists = TRUE
    /\ save = NoSave /\ seen = NoSeen
    /\ env = [HOME |-> TRUE, EDITOR |-> TRUE] /\ accessed = {} /\ cmd = "none"
    /\ tree = <<>>
    /\ TermIdle /\ ParserIdle /\ MarkedIdle
    /\ \E n \in 1..MaxViewLines : source_lines \in [1..n -> ViewLineTexts]
    /\ scroll_offset = 0 /\ cursor_line_offset = 0
    /\ source_view_height = INITIAL_VIEW_HEIGHT
    /\ input_mode = "Normal" /\ input = <<>> /\ grep_text = <<>>

\* jump_cursor(index) as the whole effect of the key named op.
JumpCursor(index, op) ==
    \E overflow_checks \in BOOLEAN :
        LET cursor == clamp(index, Len(source_lines))
            r == update_offset(cursor, scroll_offset, source_view_height, overflow_checks)
        IN  /\ cursor_line_offset' = cursor
            /\ scroll_offset' = r.offset
            /\ outcome' = r.res
            /\ pc' = IF r.res = "ok" THEN "view" ELSE "exit"
            /\ lastOp' = op /\ lastArg' = index

NormalKey == pc = "view" /\ input_mode = "Normal"
EditingKey == pc = "view" /\ input_mode = "Editing"

\* ui: the draw at the top of the loop stores the height of the source view.
Draw(height) ==
    /\ pc = "view"
    /\ source_view_height' = height
    /\ lastOp' = "draw" /\ lastArg' = 0 /\ outcome' = "ok"
    /\ UNCHANGED <<disk, spec, pc, tmpFile, status, printed>>
    /\ UNCHANGED <<exists, saveVars, envVars, tree, termVars, parserVars, markedFile>>
    /\ UNCHANGED <<source_lines, scroll_offset, cursor_line_offset, input_mode,
                   input, grep_text>>

KeyMove(op, index) ==
    /\ NormalKey
    /\ JumpCursor(index, op)
    /\ UNCHANGED <<disk, spec, tmpFile, status, printed>>
    /\ UNCHANGED <<exists, saveVars, envVars, tree, termVars, parserVars, markedFile>>
    /\ UNCHANGED <<source_lines, source_view_height, input_mode, input, grep_text>>

KeyJ == KeyMove("j", cursor_saturating_add(cursor_line_offset, 1))
KeyK == KeyMove("k", saturating_sub(cursor_line_offset, 1))
KeySmallG == KeyMove("g", 0)
KeyBigG == KeyMove("G", saturating_sub(Len(source_lines), 1))
KeyCtrlD == KeyMove("ctrl_d", cursor_saturating_add(cursor_line_offset, PAGE))
KeyCtrlU == KeyMove("ctrl_u", saturating_sub(cursor_line_offset, PAGE))

\* A key of the normal mode that finds nothing to do.
KeyStay(op) ==
    /\ NormalKey
    /\ lastOp' = op /\ lastArg' = cursor_line_offset /\ outcome' = "ok"
    /\ UNCHANGED <<disk, spec, pc, tmpFile, status, printed>>
    /\ UNCHANGED <<exists, saveVars, envVars, tree, termVars, parserVars, markedFile>>
    /\ UNCHANGED cursorVars

\* n and N: nothing happens without a grep text or without a match.
KeyN ==
    IF grep_text = <<>> \/ next_matched_index(grep_text[1]) = {}
    THEN KeyStay("n")
    ELSE \E idx \in next_matched_index(grep_text[1]) : KeyMove("n", idx)

KeyBigN ==
    IF grep_text = <<>> \/ prev_matched_index(grep_text[1]) = {}
    THEN KeyStay("N")
    ELSE \E idx \in prev_matched_index(grep_text[1]) : KeyMove("N", idx)

\* m: spec.add(cursor), then inc_cursor(1).
KeyM ==
    /\ NormalKey
    /\ Len(add(spec, cursor_line_offset).specs) <= MaxSpecs
    /\ spec' = add(spec, cursor_line_offset)
    /\ \E overflow_checks \in BOOLEAN :
        LET cursor == clamp(cursor_saturating_add(cursor_line_offset, 1), Len(source_lines))
            r == update_offset(cursor, scroll_offset, source_view_height, overflow_checks)
        IN  /\ cursor_line_offset' = cursor
            /\ scroll_offset' = r.offset
            /\ outcome' = r.res
            /\ pc' = IF r.res = "ok" THEN "view" ELSE "exit"
    /\ lastOp' = "m" /\ lastArg' = cursor_line_offset
    /\ UNCHANGED <<disk, tmpFile, status, printed>>
    /\ UNCHANGED <<exists, saveVars, envVars, tree, termVars, parserVars, markedFile>>
    /\ UNCHANGED <<source_lines, source_view_height, input_mode, input, grep_text>>

\* u: spec.remove(cursor), then inc_cursor(1).
KeyU ==
    /\ NormalKey
    /\ \E overflow_checks \in BOOLEAN :
        LET rm == remove(spec, cursor_line_offset, overflow_checks)
            cursor == clamp(cursor_saturating_add(cursor_line_offset, 1), Len(source_lines))
            r == update_offset(cursor, scroll_offset, source_view_height, overflow_checks)
        IN  /\ Len(rm.val.specs) <= MaxSpecs
            /\ spec' = rm.val
            /\ IF rm.res = "ok"
               THEN /\ cursor_line_offset' = cursor
                    /\ scroll_offset' = r.offset
                    /\ outcome' = r.res
                    /\ pc' = IF r.res = "ok" THEN "view" ELSE "exit"
               ELSE /\ UNCHANGED <<cursor_line_offset, scroll_offset>>
                    /\ outcome' = rm.res
                    /\ pc' = "exit"
    /\ lastOp' = "u" /\ lastArg' = cursor_line_offset
    /\ UNCHANGED <<disk, tmpFile, status, printed>>
    /\ UNCHANGED <<exists, saveVars, envVars, tree, termVars, parserVars, markedFile>>
    /\ UNCHANGED <<source_lines, source_view_height, input_mode, input, grep_text>>

\* /: to the editing mode.
KeySlash ==
    /\ NormalKey
    /\ input_mode' = "Editing"
    /\ lastOp' = "slash" /\ lastArg' = 0 /\ outcome' = "ok"
    /\ UNCHANGED <<disk, spec, pc, tmpFile, status, printed>>
    /\ UNCHANGED <<exists, saveVars, envVars, tree, termVars, parserVars, markedFile>>
    /\ UNCHANGED <<source_lines, scroll_offset, cursor_line_offset,
                   source_view_height, input, grep_text>>

\* A character typed in the editing mode.
KeyChar(c) ==
    /\ EditingKey
    /\ Len(input) < MaxInput
    /\ input' = Append(input, c)
    /\ lastOp' = "char" /\ lastArg' = 0 /\ outcome' = "ok"
    /\ UNCHANGED <<disk, spec, pc, tmpFile, status, printed>>
    /\ UNCHANGED <<exists, saveVars, envVars, tree, termVars, parserVars, markedFile>>
    /\ UNCHANGED <<source_lines, scroll_offset, cursor_line_offset,
                   source_view_height, input_mode, grep_text>>

\* Backspace: cancels the search on an empty input, else deletes a character.
KeyBackspace ==
    /\ EditingKey
    /\ IF input = <<>>
       THEN input_mode' = "Normal" /\ input' = <<>>
       ELSE input_mode' = input_mode /\ input' = SubSeq(input, 1, Len(input) - 1)
    /\ lastOp' = "backspace" /\ lastArg' = 0 /\ outcome' = "ok"
    /\ UNCHANGED <<disk, spec, pc, tmpFile, status, printed>>
    /\ UNCHANGED <<exists, saveVars, envVars, tree, termVars, parserVars, markedFile>>
    /\ UNCHANGED <<source_lines, scroll_offset, cursor_line_offset,
                   source_view_height, grep_text>>

\* Enter: current_line_contains indexes source_lines with the cursor, and
\* panics on an index that is no line; the search then moves to the next match
\* unless the current line matches.
KeyEnter ==
    /\ EditingKey
    /\ lastOp' = "enter" /\ lastArg' = cursor_line_offset
    /\ IF cursor_line_offset >= Len(source_lines)
       THEN /\ outcome' = "panic" /\ pc' = "exit"
            /\ UNCHANGED <<scroll_offset, cursor_line_offset, input_mode, input, grep_text>>
       ELSE /\ grep_text' = <<input>>
            /\ input' = <<>>
            /\ input_mode' = "Normal"
            /\ IF \/ contains(source_lines[cursor_line_offset + 1], input)
                  \/ next_matched_index(input) = {}
               THEN /\ outcome' = "ok"
                    /\ UNCHANGED <<pc, scroll_offset, cursor_line_offset>>
               ELSE \E idx \in next_matched_index(input) :
                    \E overflow_checks \in BOOLEAN :
                        LET cursor == clamp(idx, Len(source_lines))
                            r == update_offset(cursor, scroll_offset,
                                               source_view_height, overflow_checks)
                        IN  /\ cursor_line_offset' = cursor
                            /\ scroll_offset' = r.offset
                            /\ outcome' = r.res
                            /\ pc' = IF r.res = "ok" THEN "view" ELSE "exit"
    /\ UNCHANGED <<disk, spec, tmpFile, status, printed>>
    /\ UNCHANGED <<exists, saveVars, envVars, tree, termVars, parserVars, markedFile>>
    /\ UNCHANGED <<source_lines, source_view_height>>

NextCursor ==
    \/ \E height \in ViewHeights : Draw(height)
    \/ KeyJ
    \/ KeyK
    \/ KeySmallG
    \/ KeyBigG
    \/ KeyCtrlD
    \/ KeyCtrlU
    \/ KeyN
    \/ KeyBigN
    \/ KeyM
    \/ KeyU
    \/ KeySlash
    \/ \E c \in ViewChars : KeyChar(c)
    \/ KeyBackspace
    \/ KeyEnter
    \/ NormalKey /\ Quit

SpecCursor == InitCursor /\ [][NextCursor]_vars

(***************************************************************************)
(* ViewApp::run statement by statement: the terminal is set up, the app is *)
(* built, the loop handles keys, and the end of run saves and restores.    *)
(* The calls to the terminal, the event queue and the file system succeed  *)
(* or fail as the environment decides.                                     *)
(***************************************************************************)
\* Spec files a session is started on: those of ViewDisks and one that does
\* not parse.
TermDisks == ViewDisks \cup { <<<<"x">>>> }

InitTerm ==
    /\ disk \in TermDisks
    /\ spec = NoSpec
    /\ lastOp = "new" /\ lastArg = 0 /\ outcome = "ok"
    /\ pc = "enable_raw_mode"
    /\ tmpFile = <<>> /\ status = NoStatus /\ printed = NoPrint
    /\ exists = TRUE
    /\ save = NoSave /\ seen = NoSeen
    /\ env = [HOME |-> TRUE, EDITOR |-> TRUE] /\ accessed = {} /\ cmd = "none"
    /\ tree = <<>>
    /\ TermIdle /\ ParserIdle /\ MarkedIdle /\ CursorIdle

\* A statement of run that touches neither the spec nor the spec file: it goes
\* on to next when it succeeds and leaves run with res when it fails.
TermStep(op, ok, next, res) ==
    /\ lastOp' = op /\ lastArg' = 0
    /\ outcome' = IF ok THEN "ok" ELSE res
    /\ pc' = IF ok THEN next ELSE "exit"
    /\ UNCHANGED <<disk, tmpFile, status, printed>>
    /\ UNCHANGED <<exists, saveVars, envVars, tree, parserVars, markedFile, cursorVars>>

\* init_terminal: terminal::enable_raw_mode()?
EnableRawMode ==
    /\ pc = "enable_raw_mode"
    /\ \E ok \in BOOLEAN :
        /\ raw_mode' = ok
        /\ TermStep("enable_raw_mode", ok, "enter_alternate_screen", "err")
    /\ UNCHANGED <<spec, alternate_screen>>

\* init_terminal: io::stdout().execute(EnterAlternateScreen)?
EnterAlternateScreen ==
    /\ pc = "enter_alternate_screen"
    /\ \E ok \in BOOLEAN :
        /\ alternate_screen' = ok
        /\ TermStep("enter_alternate_screen", ok, "terminal_new", "err")
    /\ UNCHANGED <<spec, raw_mode>>

\* init_terminal: Terminal::new(...), and the ? of run on its result.
TerminalNew ==
    /\ pc = "terminal_new"
    /\ \E ok \in BOOLEAN : TermStep("terminal_new", ok, "app_new", "err")
    /\ UNCHANGED <<spec, termVars>>

\* ViewApp::new: touch_file, read_source_by_line and parse_spec_file, each with
\* expect.
AppNew ==
    /\ pc = "app_new"
    /\ \E touched \in BOOLEAN, readable \in BOOLEAN :
        LET r == parse_spec_file(disk)
            ok == touched /\ readable /\ r.res = "ok"
        IN  /\ spec' = IF ok THEN r.val ELSE spec
            /\ TermStep("app_new", ok, "view", "panic")
    /\ UNCHANGED termVars

\* event::poll(timeout)? or the event::read()? of a handler returns an Err.
EventError ==
    /\ pc = "view"
    /\ TermStep("event", FALSE, "view", "err")
    /\ UNCHANGED <<spec, termVars>>

\* q: the handler returns None and the loop breaks.
KeyQ ==
    /\ pc = "view"
    /\ TermStep("q", TRUE, "finish", "err")
    /\ UNCHANGED <<spec, termVars>>

\* After the loop: app.spec.optimize() and write_spec_file(...)?
Finish ==
    /\ pc = "finish"
    /\ \E written \in BOOLEAN :
        LET r == optimize(spec)
        IN  /\ spec' = r.val
            /\ outcome' = IF r.res # "ok" THEN r.res ELSE IF written THEN "ok" ELSE "err"
            /\ disk' = IF r.res = "ok" /\ written THEN write_spec_file(r.val) ELSE disk
            /\ pc' = IF r.res = "ok" /\ written THEN "disable_raw_mode" ELSE "exit"
    /\ lastOp' = "finish" /\ lastArg' = 0
    /\ UNCHANGED <<tmpFile, status, printed>>
    /\ UNCHANGED <<exists, saveVars, envVars, tree, termVars, parserVars, markedFile, cursorVars>>

\* restore_terminal: terminal::disable_raw_mode()?
DisableRawMode ==
    /\ pc = "disable_raw_mode"
    /\ \E ok \in BOOLEAN :
        /\ raw_mode' = IF ok THEN FALSE ELSE raw_mode
        /\ TermStep("disable_raw_mode", ok, "leave_alternate_screen", "err")
    /\ UNCHANGED <<spec, alternate_screen>>

\* restore_terminal: io::stdout().execute(LeaveAlternateScreen)?, then Ok(()).
LeaveAlternateScreen ==
    /\ pc = "leave_alternate_screen"
    /\ \E ok \in BOOLEAN :
        /\ alternate_screen' = IF ok THEN FALSE ELSE alternate_screen
        /\ TermStep("leave_alternate_screen", ok, "exit", "err")
    /\ UNCHANGED <<spec, raw_mode>>

NextTerm ==
    \/ EnableRawMode
    \/ EnterAlternateScreen
    \/ TerminalNew
    \/ AppNew
    \/ \E o \in U16 : Add(o)
    \/ \E o \in U16 : Remove(o)
    \/ EventError
    \/ KeyQ
    \/ Finish
    \/ DisableRawMode
    \/ LeaveAlternateScreen

SpecTerm == InitTerm /\ [][NextTerm]_vars

(***************************************************************************)
(* Properties                                                              *)
(***************************************************************************)
\* What one interval covers, as the data model states it.
IntervalCovers(s, o) ==
    IF s[1] = "Line" THEN s[2] = o ELSE s[2] <= o /\ o < s[3]

CoverCount(specs, o) == Cardinality({i \in 1..Len(specs) : IntervalCovers(specs[i], o)})
NonOverlapping(specs) == \A o \in U16 : CoverCount(specs, o) <= 1

\* C1: for a Partial spec whose intervals do not overlap and an offset o that
\* exactly one interval covers, after remove(o) the spec no longer matches o.
C1_RemoveUnmatches ==
    [][(/\ lastOp' = "remove"
        /\ spec.tag = "Partial"
        /\ NonOverlapping(spec.specs)
        /\ CoverCount(spec.specs, lastArg') = 1)
       => (outcome' = "ok" /\ ~match_line_offset(spec', lastArg'))]_vars

\* C2: round trip: a canonical spec S that has just been written is read back by
\* the next load as a spec that matches the same offsets of the domain as S.
C2_RoundTrip ==
    [][(lastOp = "write" /\ outcome = "ok" /\ lastOp' = "load")
       => (/\ outcome' = "ok"
           /\ \A o \in U16 : match_line_offset(spec', o) = match_line_offset(spec, o))]_vars

IsDirective(line) == line # <<>> /\ line[1] # "#"
DirectiveIdx(file) == {i \in 1..Len(file) : IsDirective(file[i])}
\* The non-blank, non-comment lines of a file, in file order.
RECURSIVE Directives(_)
Directives(file) ==
    IF file = <<>> THEN <<>>
    ELSE IF IsDirective(file[1]) THEN <<file[1]>> \o Directives(Tail(file))
    ELSE Directives(Tail(file))
NoMagic(file) == \A i \in 1..Len(file) : ~contains(file[i], ALL_MAGIC)
DirectivesValid(file) ==
    \A i \in DirectiveIdx(file) : parse_directive(file[i]).res = "ok"
OneIntervalPerDirective(file) ==
    LET d == Directives(file)
    IN  [i \in 1..Len(d) |-> parse_directive(d[i]).val]

\* C3: parsing a file without the magic marker skips blank lines and lines that
\* begin with '#': the result is Partial with one interval per remaining line, in
\* file order, each parsed as it would be alone.
C3_ParseSkipsBlankAndComment ==
    [][(/\ pc = "edit_parse" /\ lastOp' = "parse"
        /\ NoMagic(tmpFile) /\ DirectivesValid(tmpFile))
       => (/\ outcome' = "ok"
           /\ spec' = Partial(OneIntervalPerDirective(tmpFile)))]_vars

\* C4: optimize on a Partial spec completes and leaves matches(o) as it was, for
\* every offset o of the domain.
C4_OptimizePreservesMembership ==
    [][(lastOp' = "optimize" /\ spec.tag = "Partial")
       => (/\ outcome' = "ok"
           /\ \A o \in U16 : match_line_offset(spec', o) = match_line_offset(spec, o))]_vars

Start(s) == s[2]
\* One past the last offset an interval covers.
End(s) == IF s[1] = "Line" THEN s[2] + 1 ELSE s[3]
Canonical(specs) ==
    /\ \A i \in 1..Len(specs) :
        /\ Start(specs[i]) < End(specs[i])
        /\ specs[i][1] = "Line" => End(specs[i]) < U16_MAX
        /\ specs[i][1] = "Range" =>
            (End(specs[i]) - Start(specs[i]) >= 2 \/ End(specs[i]) = U16_MAX)
    /\ \A i \in 1..(Len(specs) - 1) : End(specs[i]) < Start(specs[i + 1])

Optimized == lastOp \in {"optimize", "quit"} /\ outcome = "ok" /\ spec.tag = "Partial"

\* C5: right after optimize the list of a Partial spec is canonical: sorted by
\* start, no two intervals overlapping or adjacent, a run of one offset a Line and
\* a longer run a Range of length >= 2, except that the run reaching the end of
\* the table is a Range ending at u16::MAX whatever its length.
C5_OptimizeCanonical == Optimized => Canonical(spec.specs)

C5_Witness ==
    /\ Optimized /\ lastOp = "optimize"
    /\ spec.specs = <<Line(0), Range(U16_MAX - 1, U16_MAX)>>

\* C6: optimize is idempotent: optimizing an optimized spec gives the same list,
\* entry for entry.
C6_OptimizeIdempotent ==
    (lastOp \in {"optimize", "quit"} /\ outcome = "ok")
        => optimize(spec) = [res |-> "ok", val |-> spec]

C6_Witness ==
    /\ Optimized /\ lastOp = "optimize"
    /\ Len(spec.specs) = 1 /\ spec.specs[1][1] = "Range"
    /\ spec.specs[1][3] < U16_MAX

\* The permutations of 1..n (Permutations of the TLC module).
Perms(n) == Permutations(1..n)
Permuted(specs, f) == [i \in 1..Len(specs) |-> specs[f[i]]]

\* C7: matches(o) is true for All; for Partial it is the OR over the intervals of
\* their coverage of o, whatever the order of the list.
C7_MatchesIsOr ==
    pc = "view" =>
        /\ spec.tag = "All" => \A o \in U16 : match_line_offset(spec, o)
        /\ spec.tag = "Partial" =>
            /\ \A o \in U16 :
                 match_line_offset(spec, o)
                   = (\E i \in 1..Len(spec.specs) : IntervalCovers(spec.specs[i], o))
            /\ \A f \in Perms(Len(spec.specs)) :
                 LET permuted == Partial(Permuted(spec.specs, f))
                 IN  \A o \in U16 :
                        match_line_offset(permuted, o) = match_line_offset(spec, o)

\* An unsorted list with a duplicate and an overlap, matched by a later entry only.
C7_Witness ==
    /\ pc = "view" /\ spec.tag = "Partial" /\ Len(spec.specs) = 3
    /\ spec.specs[2] = spec.specs[3]
    /\ Start(spec.specs[2]) < Start(spec.specs[1])
    /\ \E o \in U16 :
        /\ ~IntervalCovers(spec.specs[1], o)
        /\ IntervalCovers(spec.specs[2], o)
    /\ \E o \in U16 : CoverCount(spec.specs, o) >= 2

\* C8: after add(o) the spec matches o, for All and for Partial.
C8_AddMatches == lastOp = "add" => match_line_offset(spec, lastArg)

C8_Witness ==
    /\ lastOp = "add" /\ spec.tag = "Partial"
    /\ Len(spec.specs) > 1
    /\ spec.specs[Len(spec.specs)] = Line(lastArg)

\* C9: remove(o) on All gives Partial([Range(0,o), Range(o+1,u16::MAX)]), which
\* matches every offset of the domain but o.
C9_RemoveFromAll ==
    [][(lastOp' = "remove" /\ spec.tag = "All")
       => (/\ outcome' = "ok"
           /\ spec' = Partial(<<Range(0, lastArg'), Range(lastArg' + 1, U16_MAX)>>)
           /\ ~match_line_offset(spec', lastArg')
           /\ \A x \in U16 \ {lastArg'} : match_line_offset(spec', x))]_vars

\* C10: file_status returns (marked, total) with total the number of lines of the
\* file and marked the number of offsets i in [0, total) that the spec matches:
\* the lines print highlights for the same spec file and source (a source of at
\* most u16::MAX lines, which the counters can hold).
C10_FileStatusCounts ==
    (lastOp = "file_status" /\ outcome = "ok" /\ status.n <= U16_MAX) =>
        /\ status.line_no = status.n
        /\ status.marked =
             Cardinality({i \in 0..(status.n - 1) :
                            match_line_offset(parse_spec_file(disk).val, i)})
        /\ printed.n = status.n => status.marked = Cardinality(printed.lines)

\* A line without its leading and trailing blanks.
TrimBlanks(t) ==
    LET ks == {k \in 1..Len(t) : t[k] # " "}
    IN  IF ks = {} THEN <<>>
        ELSE SubSeq(t, CHOOSE k \in ks : \A j \in ks : k <= j, Max(ks))
AllDigits(t) == t # <<>> /\ \A k \in 1..Len(t) : IsDigit(t[k])
DashAt(t) == {k \in 1..Len(t) : t[k] = "-"}
\* The text 'N' and the text 'N-M' (blanks allowed around the numbers).
IsNumText(line) == AllDigits(TrimBlanks(line))
IsRangeText(line) ==
    /\ Cardinality(DashAt(line)) = 1
    /\ LET k == CHOOSE k \in DashAt(line) : TRUE
       IN  /\ AllDigits(TrimBlanks(SubSeq(line, 1, k - 1)))
           /\ AllDigits(TrimBlanks(SubSeq(line, k + 1, Len(line))))
NumN(line) ==
    IF IsRangeText(line)
    THEN DecValue(TrimBlanks(SubSeq(line, 1, (CHOOSE k \in DashAt(line) : TRUE) - 1)))
    ELSE DecValue(TrimBlanks(line))
NumM(line) ==
    DecValue(TrimBlanks(SubSeq(line, (CHOOSE k \in DashAt(line) : TRUE) + 1, Len(line))))
Max0(n) == IF n < 0 THEN 0 ELSE n
PlainDirectives(file) ==
    file # <<>> /\ \A i \in 1..Len(file) : IsNumText(file[i]) \/ IsRangeText(file[i])

\* C14: in a file of directive lines that has parsed, a line 'N-M' has given
\* Range(max(N-1,0), max(M-1,0)), never a Line, and that range covers exactly the
\* offsets N-1 .. M-2; a line 'N' has given Line(max(N-1,0)), so '0' and '1' both
\* give offset 0.
C14_RangeBeforeNumber ==
    (pc = "edit_save" /\ lastOp = "parse" /\ PlainDirectives(tmpFile)) =>
        /\ spec.tag = "Partial" /\ Len(spec.specs) = Len(tmpFile)
        /\ \A i \in 1..Len(tmpFile) :
            LET line == tmpFile[i]
                N == NumN(line)
                M == NumM(line)
            IN  IF IsRangeText(line)
                THEN /\ spec.specs[i] = Range(Max0(N - 1), Max0(M - 1))
                     /\ \A o \in U16 :
                          match_line_offset(Partial(<<spec.specs[i]>>), o)
                            = (N - 1 <= o /\ o <= M - 2)
                ELSE /\ spec.specs[i] = Line(Max0(N - 1))
                     /\ N \in {0, 1} => spec.specs[i] = Line(0)

\* '0-2' saturates to Range(0,1) and a later '0' to Line(0).
C14_Witness ==
    /\ pc = "edit_save" /\ lastOp = "parse"
    /\ tmpFile = << <<"0", "-", "2">>, <<"0">> >>
    /\ spec = Partial(<<Range(0, 1), Line(0)>>)

\* C20: every Range(l, r) of the spec in memory, parsed from an accepted file and
\* changed by add, remove and optimize, has l <= r.
C20_RangeOrdered ==
    spec.tag = "Partial" =>
        \A i \in 1..Len(spec.specs) :
            spec.specs[i][1] = "Range" => spec.specs[i][2] <= spec.specs[i][3]

HasMagic(line) == contains(line, ALL_MAGIC)
MagicIdx(file) == {i \in 1..Len(file) : HasMagic(file[i])}
\* The lines before line i hold no magic marker.
NoMagicBefore(file, i) == \A j \in 1..(i - 1) : ~HasMagic(file[j])
\* The parser reaches a magic line: the first line with the marker is no comment
\* and every directive line before it is valid.
MagicReached(file) ==
    \E i \in MagicIdx(file) :
        /\ NoMagicBefore(file, i)
        /\ IsDirective(file[i])
        /\ \A j \in 1..(i - 1) :
            IsDirective(file[j]) => parse_directive(file[j]).res = "ok"

\* C13: when a line of the file holds the magic marker (and parsing gets as far as
\* that line), the result is All, whatever the lines before and after it are.
C13_MagicGivesAll ==
    [][(pc = "edit_parse" /\ lastOp' = "parse" /\ MagicReached(tmpFile))
       => (outcome' = "ok" /\ spec' = All)]_vars

\* A directive line without the marker, before any magic line, that matches
\* neither pattern or holds a number above u16::MAX.
InvalidBeforeMagic(file) ==
    \E i \in 1..Len(file) :
        /\ NoMagicBefore(file, i) /\ ~HasMagic(file[i])
        /\ IsDirective(file[i])
        /\ parse_directive(file[i]).res = "err"

\* C15: a file with such a line fails to load as a whole: an error and no spec.
C15_InvalidLineFails ==
    [][(pc = "edit_parse" /\ lastOp' = "parse" /\ InvalidBeforeMagic(tmpFile))
       => (outcome' = "err" /\ spec' = NoSpec)]_vars

\* C19: edit runs the editor on a temporary copy and replaces the spec file only
\* after the copy has parsed: the editor step (started or not) and the parse step
\* (passed or failed) leave the content of the spec file as it was, and the
\* content changes only in the write that follows a successful parse.
C19_EditKeepsSpecOnFailure ==
    [][/\ lastOp' \in {"editor", "parse"} => disk' = disk
       /\ (lastOp' = "write" /\ disk' # disk) => (lastOp = "parse" /\ outcome = "ok")]_vars

\* An edit of a spec file with content whose copy did not parse.
C19_Witness ==
    /\ lastOp = "parse" /\ outcome = "err" /\ pc = "idle"
    /\ disk = <<ALL_MAGIC>>

\* A save by the view session (q) or by edit has just completed.
Saved == lastOp \in {"quit", "write"} /\ outcome = "ok"

\* C16: the spec a view session or an edit has just written was optimized after
\* its last change: the Partial spec handed to write_spec_file is canonical, and
\* the spec file holds its text.
C16_WrittenSpecCanonical ==
    (Saved /\ spec.tag = "Partial") =>
        /\ Canonical(spec.specs)
        /\ disk = write_spec_file(spec)

\* An edit whose copy listed line 3 before line 1.
C16_Witness ==
    /\ Saved /\ lastOp = "write"
    /\ spec = Partial(<<Line(0), Range(U16_MAX - 1, U16_MAX)>>)
    /\ disk = write_spec_file(spec)

\* C12: whatever a concurrent reader found when it opened the spec file during a
\* save (by edit, edit --all or the view session) is the whole content from
\* before the save or the whole new content: never a missing or truncated file.
C12_ReaderSeesOldOrNew ==
    seen.during # "none" =>
        /\ seen.present
        /\ seen.content \in {save.old, save.new}

\* The accesses the claim lists: the source path resolved on disk, the spec
\* directory, the spec file, a temporary file.
ClaimedAccesses == {"source", "spec_dir", "spec_file", "temp"}

\* C17: a command that fails because HOME or EDITOR is not set has by then
\* resolved no source path and created, read or written no spec directory, spec
\* file or temporary file.
C17_EnvCheckedFirst ==
    outcome = "env" => accessed \cap ClaimedAccesses = {}

\* The regular files of a tree, at any depth, in visiting order.
RECURSIVE RegularFiles(_)
RegularFiles(entries) ==
    IF entries = <<>> THEN <<>>
    ELSE (IF entries[1].kind = "dir" THEN RegularFiles(entries[1].entries)
          ELSE <<entries[1]>>) \o RegularFiles(Tail(entries))

GoodFile(e) == entry_file_status(e, TRUE).res = "ok"
AllGood(entries) ==
    LET fs == RegularFiles(entries) IN \A i \in 1..Len(fs) : GoodFile(fs[i])

RECURSIVE SumOver(_, _)
SumOver(fs, field) ==
    IF fs = <<>> THEN 0
    ELSE entry_file_status(fs[1], TRUE)[field] + SumOver(Tail(fs), field)

\* C11: for a tree whose files all load, status on the directory returns the
\* arithmetic sum of the files' marked counts and the arithmetic sum of their
\* line counts, however many lines the files hold together.
C11_DirectorySums ==
    (lastOp = "directory_status" /\ AllGood(tree)) =>
        /\ outcome = "ok"
        /\ status.marked = SumOver(RegularFiles(tree), "marked")
        /\ status.line_no = SumOver(RegularFiles(tree), "line_no")

\* C18: for a tree with a file, at any depth and any place in the visiting order,
\* whose spec file does not parse or whose source cannot be read, status on the
\* directory returns that error and no counts.
C18_DirectoryFailsOnBadEntry ==
    (lastOp = "directory_status" /\ ~AllGood(tree)) =>
        /\ outcome = "err"
        /\ status = NoStatus

\* C21: add(o) on a Partial spec appends one Line(o) at the end of the list and
\* leaves the entries before it as they were, whether or not o was matched; an
\* optimize that follows an add(o) and completes leaves one entry that covers o.
C21_AddAppends ==
    [][/\ (lastOp' = "add" /\ spec.tag = "Partial")
           => (/\ spec'.tag = "Partial"
               /\ Len(spec'.specs) = Len(spec.specs) + 1
               /\ spec'.specs[Len(spec'.specs)] = Line(lastArg')
               /\ SubSeq(spec'.specs, 1, Len(spec.specs)) = spec.specs)
       /\ (lastOp = "add" /\ spec.tag = "Partial" /\ lastOp' = "optimize" /\ outcome' = "ok")
           => CoverCount(spec'.specs, lastArg) = 1]_vars

\* add(o) called twice in a row: the list ends with two Line(o) entries.
C21_Witness ==
    /\ lastOp = "add" /\ spec.tag = "Partial" /\ Len(spec.specs) >= 2
    /\ spec.specs[Len(spec.specs)] = Line(lastArg)
    /\ spec.specs[Len(spec.specs) - 1] = Line(lastArg)

Min(S) == CHOOSE x \in S : \A y \in S : x <= y
CoverIdx(specs, o) == {i \in 1..Len(specs) : IntervalCovers(specs[i], o)}

\* C24: remove(o) on a Partial spec edits only the first interval that covers o:
\* the entries before it and the entries after it (also those that cover o) are
\* the same, in the same order, around the zero, one or two entries that take its
\* place; when no interval covers o the list is unchanged.
C24_RemoveEditsFirstOnly ==
    [][(lastOp' = "remove" /\ spec.tag = "Partial")
       => LET S == spec.specs
              T == spec'.specs
              c == CoverIdx(S, lastArg')
          IN  /\ outcome' = "ok" /\ spec'.tag = "Partial"
              /\ IF c = {} THEN T = S
                 ELSE LET i == Min(c)
                          k == Len(T) - Len(S) + 1
                      IN  /\ k \in 0..2
                          /\ SubSeq(T, 1, i - 1) = SubSeq(S, 1, i - 1)
                          /\ SubSeq(T, i + k, Len(T)) = SubSeq(S, i + 1, Len(S))]_vars

\* After remove(o) a later entry that covers o is still there, behind a Range
\* that no longer covers o.
C24_Witness ==
    /\ lastOp = "remove" /\ spec.tag = "Partial" /\ Len(spec.specs) = 2
    /\ spec.specs[1][1] = "Range" /\ ~IntervalCovers(spec.specs[1], lastArg)
    /\ IntervalCovers(spec.specs[2], lastArg)

\* What takes the place of the interval e when o is removed from it.
Replacement(e, o) ==
    IF e[1] = "Line" THEN <<>>
    ELSE IF e[3] - e[2] = 1 THEN <<Line(e[2])>>
    ELSE IF o = e[2] THEN <<Range(e[2] + 1, e[3])>>
    ELSE IF o = e[3] - 1 THEN <<Range(e[2], e[3] - 1)>>
    ELSE <<Range(e[2], o), Range(o + 1, e[3])>>

\* C25: the first interval covering o is replaced in place: Line(o) is deleted;
\* Range(l, r) becomes Line(l) when r - l = 1, else Range(l+1, r) when o = l, else
\* Range(l, r-1) when o = r-1, else Range(l, o) followed by Range(o+1, r).
C25_RemoveCases ==
    [][(lastOp' = "remove" /\ spec.tag = "Partial" /\ CoverIdx(spec.specs, lastArg') # {})
       => LET S == spec.specs
              T == spec'.specs
              i == Min(CoverIdx(S, lastArg'))
              X == Replacement(S[i], lastArg')
          IN  /\ Len(T) = Len(S) - 1 + Len(X)
              /\ SubSeq(T, i, i + Len(X) - 1) = X]_vars

\* A Range of a list of two entries split in two around the removed offset.
C25_Witness ==
    /\ lastOp = "remove" /\ spec.tag = "Partial" /\ Len(spec.specs) = 3
    /\ \E i \in 1..(Len(spec.specs) - 1) :
        /\ spec.specs[i][1] = "Range" /\ spec.specs[i][3] = lastArg
        /\ spec.specs[i][2] < lastArg
        /\ spec.specs[i + 1][1] = "Range" /\ spec.specs[i + 1][2] = lastArg + 1
        /\ spec.specs[i + 1][3] > lastArg + 1

\* C27: add(o) and remove(o) on a Partial spec leave the membership of every
\* offset other than o as it was, for lists with overlaps and in any order.
C27_OtherOffsetsUnchanged ==
    [][(lastOp' \in {"add", "remove"} /\ spec.tag = "Partial")
       => \A x \in U16 \ {lastArg'} :
            (CoverIdx(spec'.specs, x) # {}) = (CoverIdx(spec.specs, x) # {})]_vars

\* remove(o) from inside a run of a list of two entries: o is unmatched, its two
\* neighbours still match.
C27_Witness ==
    /\ lastOp = "remove" /\ spec.tag = "Partial" /\ Len(spec.specs) = 3
    /\ lastArg > 0 /\ lastArg < U16_MAX
    /\ CoverIdx(spec.specs, lastArg) = {}
    /\ CoverIdx(spec.specs, lastArg - 1) # {}
    /\ CoverIdx(spec.specs, lastArg + 1) # {}

\* The text t is the decimal numeral of n >= 1.
IsDecimalOf(t, n) == AllDigits(t) /\ t[1] # "0" /\ DecValue(t) = n
\* n + 1, saturating at u16::MAX.
SatInc(n) == IF n >= U16_MAX THEN U16_MAX ELSE n + 1
\* The line of the spec file for one interval.
IsLineFor(t, e) ==
    IF e[1] = "Line" THEN IsDecimalOf(t, SatInc(e[2]))
    ELSE /\ Cardinality(DashAt(t)) = 1
         /\ LET k == CHOOSE k \in DashAt(t) : TRUE
            IN  /\ IsDecimalOf(SubSeq(t, 1, k - 1), SatInc(e[2]))
                /\ IsDecimalOf(SubSeq(t, k + 1, Len(t)), SatInc(e[3]))

\* C26: the file a save has written holds, for All, the one line of the magic
\* marker and, for Partial, one line per interval in list order: 'o+1' for
\* Line(o) and 'l+1-r+1' for Range(l, r), each increment saturating at u16::MAX.
C26_WriteFormat ==
    Saved =>
        IF spec.tag = "All" THEN disk = <<ALL_MAGIC>>
        ELSE /\ Len(disk) = Len(spec.specs)
             /\ \A i \in 1..Len(disk) : IsLineFor(disk[i], spec.specs[i])

\* A view session has saved a Line and a Range whose end saturates.
C26_Witness ==
    /\ Saved /\ lastOp = "quit" /\ spec.tag = "Partial" /\ Len(disk) = 2
    /\ spec.specs[1][1] = "Line"
    /\ spec.specs[2][1] = "Range" /\ spec.specs[2][3] = U16_MAX

\* C28: every status result has marked <= total (here: of status on a directory;
\* the result of status on a file is held by the same variable).
C28_MarkedAtMostTotal ==
    (lastOp \in {"file_status", "directory_status"} /\ outcome = "ok")
        => status.marked <= status.line_no

\* C23: set(Mark) sets the mark flag of the line and set(Ignore) its ignore
\* flag; the call leaves the other flag and the text of the line as they were,
\* clears no flag of any line, and changes no other line of the file.
C23_SetFrame ==
    [][lastOp' = "set" =>
        LET i == lastArg'[1]
            mark_type == lastArg'[2]
        IN  /\ Len(markedFile') = Len(markedFile)
            /\ markedFile'[i].str = markedFile[i].str
            /\ mark_type = "Mark" =>
                markedFile'[i].mark /\ markedFile'[i].ignore = markedFile[i].ignore
            /\ mark_type = "Ignore" =>
                markedFile'[i].ignore /\ markedFile'[i].mark = markedFile[i].mark
            /\ \A j \in 1..Len(markedFile) :
                /\ markedFile[j].mark => markedFile'[j].mark
                /\ markedFile[j].ignore => markedFile'[j].ignore
                /\ j # i => markedFile'[j] = markedFile[j]]_vars

\* Ignore then Mark on the first of three lines, Mark alone on the others: the
\* first line carries both flags.
C23_Witness ==
    /\ lastOp = "set" /\ Len(markedFile) = 3
    /\ markedFile[1].mark /\ markedFile[1].ignore
    /\ markedFile[2].mark /\ ~markedFile[2].ignore
    /\ markedFile[3].mark /\ ~markedFile[3].ignore

\* The line the path list holds for a path, the text of its part of the file and
\* its suffix, and what the text of the part stands for.
ListLine(path, st, suffix) == path \o st \o suffix
SpecOf(st) ==
    IF st = <<>> THEN <<>>
    ELSE IF st[2] = "/" THEN <<Regex(SubSeq(st, 3, Len(st) - 1))>>
    ELSE IF \E k \in 1..Len(st) : st[k] = "-"
        THEN LET d == CHOOSE k \in 1..Len(st) : st[k] = "-"
             IN  <<Range(DecValue(SubSeq(st, 2, d - 1)),
                         DecValue(SubSeq(st, d + 1, Len(st))))>>
    ELSE <<Line(DecValue(SubSeq(st, 2, Len(st))))>>
TargetOf(path, st) ==
    IF SpecOf(st) # <<>> THEN FileSpec(path, SpecOf(st)[1])
    ELSE IF path \in ListDirs THEN Dir(path) ELSE File(path)

\* C22: parse_line gives a line the type Ignore exactly when the line ends with
\* 'ignore, and the target its path and its N, N-M or /re/ part stand for,
\* whatever marker or comment follows.
C22_ParseLine ==
    lastOp = "parse" =>
        \A path \in ListPaths, st \in ListSpecTexts, suffix \in ListSuffixes :
            LET line == ListLine(path, st, suffix)
            IN  (\E i \in 1..Len(lines) : lines[i] = line) =>
                    /\ parse_line(line).res = "ok"
                    /\ parse_line(line).val.target = TargetOf(path, st)
                    /\ parse_line(line).val.mark_type = "Ignore"
                        <=> ends_with(line, IGNORE_TEXT)

\* The keys that move the cursor.
MoveOps == {"j", "k", "g", "G", "ctrl_d", "ctrl_u", "m", "u", "n", "N", "enter"}

\* C29: in a view session over a source with at least one line the cursor is
\* always the offset of a line of the source.
C29_CursorOnLine ==
    Len(source_lines) > 0 => cursor_line_offset < Len(source_lines)

\* C30: a cursor movement that leaves the cursor on a line of the source
\* completes, with the cursor inside the window of the view:
\* offset <= cursor < offset + height.
C30_CursorVisible ==
    (lastOp \in MoveOps /\ cursor_line_offset < Len(source_lines)) =>
        /\ outcome = "ok"
        /\ scroll_offset <= cursor_line_offset
        /\ cursor_line_offset < scroll_offset + source_view_height

\* The lines after and before the cursor whose text contains the needle, as
\* 0-based indexes.
MatchesAfter(needle) ==
    {i \in 0..(Len(source_lines) - 1) :
        i > cursor_line_offset /\ contains(source_lines[i + 1], needle)}
MatchesBefore(needle) ==
    {i \in 0..(Len(source_lines) - 1) :
        i < cursor_line_offset /\ contains(source_lines[i + 1], needle)}
\* Where n leaves the cursor for a needle.
AfterN(needle) ==
    IF MatchesAfter(needle) = {} THEN cursor_line_offset ELSE Min(MatchesAfter(needle))
OnMatch(needle) ==
    /\ cursor_line_offset < Len(source_lines)
    /\ contains(source_lines[cursor_line_offset + 1], needle)

\* C31: with a search string set, n moves the cursor to the first later line
\* that contains it and N to the last earlier one, and leaves the cursor where
\* it is when there is none; Enter leaves the cursor in place on a line that
\* contains the typed string and else does what n does for that string: it
\* moves as n moves, and where n has nothing to move to it ends as quietly.
C31_SearchMoves ==
    [][/\ (lastOp' = "n" /\ grep_text # <<>>) =>
            cursor_line_offset' = AfterN(grep_text[1])
       /\ (lastOp' = "N" /\ grep_text # <<>>) =>
            cursor_line_offset' =
                IF MatchesBefore(grep_text[1]) = {} THEN cursor_line_offset
                ELSE Max(MatchesBefore(grep_text[1]))
       /\ lastOp' = "enter" =>
            /\ cursor_line_offset' =
                IF OnMatch(input) THEN cursor_line_offset ELSE AfterN(input)
            /\ cursor_line_offset' = cursor_line_offset => outcome' = "ok"]_vars

\* A call that sets up or restores the terminal has itself failed.
TerminalCallFailed ==
    /\ lastOp \in {"enable_raw_mode", "enter_alternate_screen", "terminal_new",
                   "disable_raw_mode", "leave_alternate_screen"}
    /\ outcome = "err"

\* C32: when run has ended, by q, by an error of the event queue, by a failure
\* to load the source or the spec or by a failure to write the spec, the
\* terminal is out of raw mode and off the alternate screen.
C32_TerminalRestored ==
    (pc = "exit" /\ ~TerminalCallFailed) => ~raw_mode /\ ~alternate_screen

====
